---- MODULE Spec2Model ----
(***************************************************************************)
(* braid-process-video: run_config, camera-identity resolution, the        *)
(* start-up alignment of the readers (synchronize_readers_from), selection *)
(* of the moment iterator, the initialisation of the outputs, the moment   *)
(* loop and gather_frame_data (src/braid-process-video/src/lib.rs).        *)
(*                                                                         *)
(* Strings are sequences of tokens (<<"CamA">>, or a file name such as     *)
(* <<"movie","20211108","_","084523","_","CamA",".","mp4">>), so that the  *)
(* file-name parsing is computed and string equality is exact.             *)
(* Option<T> is a sequence of length 0 (None) or 1 (Some).                 *)
(* Timestamps and durations are integers (nanoseconds).                    *)
(* f64 coordinates are the strings "NaN", "inf" and "1.0".                  *)
(***************************************************************************)
EXTENDS Integers, Sequences, FiniteSets, TLC

None == << >>
Some(x) == <<x>>
IsSome(o) == Len(o) = 1
IsNone(o) == Len(o) = 0
Unwrap(o) == o[1]

Str(tok) == <<tok>>

Abs(i) == IF i < 0 THEN -i ELSE i

RECURSIVE SeqMin(_)
SeqMin(s) ==
    IF Len(s) = 1 THEN s[1]
    ELSE LET m == SeqMin(Tail(s)) IN IF s[1] <= m THEN s[1] ELSE m

RECURSIVE SeqMax(_)
SeqMax(s) ==
    IF Len(s) = 1 THEN s[1]
    ELSE LET m == SeqMax(Tail(s)) IN IF s[1] >= m THEN s[1] ELSE m

(***************************************************************************)
(* Bounds of the model.                                                    *)
(***************************************************************************)
MaxVideos == 2
MaxPulls == 4

(***************************************************************************)
(* File names and the movie_re regular expression (lib.rs 435, 463-478).   *)
(***************************************************************************)
Digits8 == {"20211108"}
Digits6 == {"084523"}

\* index of the first "." token, or Len+1 when there is none
RECURSIVE FirstDot(_, _)
FirstDot(name, i) ==
    IF i > Len(name) THEN i
    ELSE IF name[i] = "." THEN i
    ELSE FirstDot(name, i + 1)

\* filename.as_str().split('.').next().unwrap()
Stem(filename) == SubSeq(filename, 1, FirstDot(filename, 1) - 1)

\* movie_re.captures(stem).map(|caps| caps.get(1)): ^movie\d{8}_\d{6}_(.*)$
CamFromFilename(filename) ==
    LET stem == Stem(filename) IN
    IF /\ Len(stem) >= 5
       /\ stem[1] = "movie"
       /\ stem[2] \in Digits8
       /\ stem[3] = "_"
       /\ stem[4] \in Digits6
       /\ stem[5] = "_"
    THEN Some(SubSeq(stem, 6, Len(stem)))
    ELSE None

(***************************************************************************)
(* Peek2: a cursor with two-item lookahead over a frame sequence.          *)
(***************************************************************************)
P2New(frames) == frames
P2Peek1(r) == IF Len(r) >= 1 THEN Some(r[1]) ELSE None
P2Peek2(r) == IF Len(r) >= 2 THEN Some(r[2]) ELSE None
P2Next(r) == IF Len(r) >= 1 THEN Tail(r) ELSE r

\* Peek2 as it is kept: the two items fetched ahead and the underlying
\* iterator. peek1 and peek2 are called through shared references (lib.rs
\* 96-113, 193, 624-645), so the items are fetched by new and by next.
Fetch(iter) ==
    IF Len(iter) = 0 THEN [item |-> None, iter |-> iter]
    ELSE [item |-> Some(Head(iter)), iter |-> Tail(iter)]

Peek2New(iter) ==
    LET f1 == Fetch(iter)
        f2 == Fetch(f1.iter)
    IN  [peek1 |-> f1.item, peek2 |-> f2.item, iter |-> f2.iter]

Peek2Peek1(p) == p.peek1
Peek2Peek2(p) == p.peek2

\* an advance that would fetch the new second item without keeping the old one
Peek2NextDropsSecond(p) ==
    LET f == Fetch(p.iter) IN
    [item |-> p.peek1,
     cursor |-> [peek1 |-> f.item, peek2 |-> None, iter |-> f.iter]]

\* next: yields the first item, the second takes its place, and a new second
\* item is fetched
Peek2Next(p) ==
    LET f == Fetch(p.iter) IN
    [item |-> p.peek1,
     cursor |-> [peek1 |-> p.peek2, peek2 |-> f.item, iter |-> f.iter]]

\* the items the cursor has still to yield
Remaining(p) == p.peek1 \o p.peek2 \o p.iter

\* a source that would decode its whole file when its sequence is requested
PulledEverything(frames, reader) == Len(frames)

\* the number of frames pulled from a source of these frames once its
\* cursor has this much left to yield: all but those still in the iterator
PulledOf(frames, reader) == Len(frames) - Len(Peek2New(reader).iter)

(***************************************************************************)
(* Camera identities (lib.rs 321-400).                                     *)
(***************************************************************************)
MovieOnly(m) == [kind |-> "MovieOnly", m |-> Some(m), b |-> None]
BraidzOnly(b) == [kind |-> "BraidzOnly", m |-> None, b |-> Some(b)]
Both(m, b) == [kind |-> "Both", m |-> Some(m), b |-> Some(b)]

BraidzCamId(cam_id_str, camn) == [cam_id_str |-> cam_id_str, camn |-> camn]

\* MovieCamId::raw_name
MovieRawName(m) ==
    IF IsSome(m.title) THEN m.title
    ELSE IF IsSome(m.cam_from_filename) THEN m.cam_from_filename
    ELSE None

\* the video branch of CameraIdentifier::best_name (lib.rs 336-341)
MovieBestName(m) ==
    IF IsSome(m.cfg_name) THEN Unwrap(m.cfg_name)
    ELSE IF IsSome(m.title) THEN Unwrap(m.title)
    ELSE m.filename

\* a slip that would give a paired camera the archive's name
BestNameArchiveFirst(cam_id) ==
    IF cam_id.kind = "MovieOnly" THEN MovieBestName(Unwrap(cam_id.m))
    ELSE Unwrap(cam_id.b).cam_id_str

\* CameraIdentifier::best_name
BestName(cam_id) ==
    IF cam_id.kind \in {"MovieOnly", "Both"} THEN MovieBestName(Unwrap(cam_id.m))
    ELSE Unwrap(cam_id.b).cam_id_str

(***************************************************************************)
(* Times.  Durations and timestamps are integers in nanoseconds; the       *)
(* configuration gives microseconds (lib.rs 623, 654).                     *)
(***************************************************************************)
MicrosToDuration(x) == x * 1000

\* chrono::Duration / 2 keeps whole nanoseconds, rounding down
HalfDuration(d) == d \div 2

(***************************************************************************)
(* PerCamRender (lib.rs 171-272).                                          *)
(***************************************************************************)
Zeros(n) == [i \in 1..n |-> 0]

\* PerCamRender::from_reader: the template is the first frame of the reader;
\* None stands for the panic of peek1().unwrap() on an empty reader, or of
\* as_ref().unwrap() on a first frame that failed to decode.
FromReader(cam_id) ==
    LET rdr == Unwrap(Unwrap(cam_id.m).reader) IN
    IF IsNone(P2Peek1(rdr)) THEN None
    ELSE LET frame == Unwrap(P2Peek1(rdr)) IN
         IF ~frame.ok THEN None ELSE
         Some([best_name |-> BestName(cam_id),
               width |-> frame.w,
               height |-> frame.h,
               frame0 |-> frame.data])

\* a slip that would swap the two dimensions of the blank template
FromBraidzSwapped(archive, braidz_cam) ==
    IF IsNone(archive.image_sizes) THEN None
    ELSE LET sizes == Unwrap(archive.image_sizes) IN
         IF braidz_cam.cam_id_str \notin DOMAIN sizes THEN None
         ELSE LET wh == sizes[braidz_cam.cam_id_str] IN
              Some([best_name |-> braidz_cam.cam_id_str,
                    width |-> wh[2],
                    height |-> wh[1],
                    frame0 |-> Zeros(wh[1] * wh[2])])

\* PerCamRender::from_braidz: None stands for the panic of either unwrap
\* (no image_sizes in the archive, or no size for this camera).
FromBraidz(archive, braidz_cam) ==
    IF IsNone(archive.image_sizes) THEN None
    ELSE LET sizes == Unwrap(archive.image_sizes) IN
         IF braidz_cam.cam_id_str \notin DOMAIN sizes THEN None
         ELSE LET wh == sizes[braidz_cam.cam_id_str] IN
              Some([best_name |-> braidz_cam.cam_id_str,
                    width |-> wh[1],
                    height |-> wh[2],
                    frame0 |-> Zeros(wh[1] * wh[2])])

CameraSource(cam_id, per_cam_render) ==
    [cam_id |-> cam_id, per_cam_render |-> per_cam_render]

(***************************************************************************)
(* Building the roster (lib.rs 452-566).                                   *)
(***************************************************************************)
\* the MovieCamId built for one video input (lib.rs 457-488)
NewMovieCamId(s) ==
    [filename |-> s.filename,
     cfg_name |-> s.camera_name,
     title |-> s.title,
     cam_from_filename |-> CamFromFilename(s.filename),
     frame0_time |-> Unwrap(s.frame0_time),
     reader |-> Some(P2New(s.frames))]

\* does building the CameraSource of this input panic (lib.rs 457, 193)
SourcePanics(s) ==
    \/ IsNone(s.frame0_time)
    \/ Len(s.frames) = 0
    \/ ~s.frames[1].ok

\* which unwrap panics for this input: frame0_time().unwrap() (lib.rs 457)
\* comes before PerCamRender::from_reader (lib.rs 193)
SourcePanicAt(s) == IF IsNone(s.frame0_time) THEN "frame0_time" ELSE "from_reader"

\* a frame source (lib.rs 436-449): how often its lazy sequence was requested
\* and how many frames were pulled from it
Unopened == [iter_calls |-> 0, pulled |-> 0]
Opened(frames, reader) == [iter_calls |-> 1, pulled |-> PulledOf(frames, reader)]

\* the frame sources after lib.rs 452-497, which stops at the first input
\* whose closure panics: frame_source.iter() (lib.rs 461) comes after
\* frame0_time().unwrap() (lib.rs 457)
OpenedSources(videos) ==
    LET bad == {i \in 1..Len(videos) : SourcePanics(videos[i])}
        reached(i) == \A j \in bad : i <= j
    IN  [i \in 1..Len(videos) |->
            IF reached(i) /\ IsSome(videos[i].frame0_time)
            THEN Opened(videos[i].frames, P2New(videos[i].frames))
            ELSE Unopened]

VideoSource(s) ==
    LET cam_id == MovieOnly(NewMovieCamId(s)) IN
    CameraSource(cam_id, Unwrap(FromReader(cam_id)))

\* a slip that would match names without regard to the title
MatchIgnoringTitle(braidz_cam_id, m) ==
    Some(braidz_cam_id.cam_id_str) = m.cam_from_filename

\* lib.rs 524: Some(braidz_cam_id.cam_id_str.clone()) == m.raw_name()
NameMatches(braidz_cam_id, m) ==
    Some(braidz_cam_id.cam_id_str) = MovieRawName(m)

\* a resolution that would replace a matched video identity by the archive's
UpdateWithArchiveIdentity(srcs, braidz_cam_id) ==
    [i \in 1..Len(srcs) |->
        LET source == srcs[i] IN
        IF source.cam_id.kind = "MovieOnly"
              /\ NameMatches(braidz_cam_id, Unwrap(source.cam_id.m))
        THEN CameraSource(BraidzOnly(braidz_cam_id), source.per_cam_render)
        ELSE source]

\* a resolution that would collect the drained roster back to front
UpdateWithReversed(srcs, braidz_cam_id) ==
    [i \in 1..Len(srcs) |->
        LET source == srcs[Len(srcs) + 1 - i] IN
        IF source.cam_id.kind = "MovieOnly"
              /\ NameMatches(braidz_cam_id, Unwrap(source.cam_id.m))
        THEN CameraSource(Both(Unwrap(source.cam_id.m), braidz_cam_id),
                          source.per_cam_render)
        ELSE source]

\* one pass of the loop body of lib.rs 515-541 over the roster
UpdateWith(srcs, braidz_cam_id) ==
    [i \in 1..Len(srcs) |->
        LET source == srcs[i] IN
        IF source.cam_id.kind = "MovieOnly"
        THEN LET m == Unwrap(source.cam_id.m) IN
             IF NameMatches(braidz_cam_id, m)
             THEN CameraSource(Both(m, braidz_cam_id), source.per_cam_render)
             ELSE source
        ELSE source]

RECURSIVE UpdateAll(_, _)
UpdateAll(srcs, braidz_sources) ==
    IF Len(braidz_sources) = 0 THEN srcs
    ELSE UpdateAll(UpdateWith(srcs, Head(braidz_sources)), Tail(braidz_sources))

(***************************************************************************)
(* synchronize_readers_from (lib.rs 87-169), for one reader.  The result   *)
(* is Some(reader), or None for a panic of one of the unwraps.             *)
(***************************************************************************)
\* a loop that would prefer the later frame on an exact tie
RECURSIVE AlignLoopTieLater(_, _, _)
AlignLoopTieLater(approx_start_time, reader, p1_delta) ==
    IF IsSome(P2Peek2(reader))
    THEN IF ~Unwrap(P2Peek2(reader)).ok THEN None
         ELSE LET p2_pts == Unwrap(P2Peek2(reader)).ts
                  p2_delta == Abs(p2_pts - approx_start_time)
              IN  IF p2_pts >= approx_start_time
                  THEN Some(IF p1_delta < p2_delta THEN reader ELSE P2Next(reader))
                  ELSE AlignLoopTieLater(approx_start_time, P2Next(reader), p2_delta)
    ELSE Some(IF IsSome(P2Peek1(reader)) THEN P2Next(reader) ELSE reader)

\* a loop that would always stop on the first frame at or after the start time
RECURSIVE AlignLoopFirstAfter(_, _, _)
AlignLoopFirstAfter(approx_start_time, reader, p1_delta) ==
    IF IsSome(P2Peek2(reader))
    THEN IF ~Unwrap(P2Peek2(reader)).ok THEN None
         ELSE LET p2_pts == Unwrap(P2Peek2(reader)).ts
                  p2_delta == Abs(p2_pts - approx_start_time)
              IN  IF p2_pts >= approx_start_time
                  THEN Some(P2Next(reader))
                  ELSE AlignLoopFirstAfter(approx_start_time, P2Next(reader), p2_delta)
    ELSE Some(IF IsSome(P2Peek1(reader)) THEN P2Next(reader) ELSE reader)

\* the loop of lib.rs 127-166
RECURSIVE AlignLoop(_, _, _)
AlignLoop(approx_start_time, reader, p1_delta) ==
    IF IsSome(P2Peek2(reader))
    THEN IF ~Unwrap(P2Peek2(reader)).ok THEN None
         ELSE LET p2_pts == Unwrap(P2Peek2(reader)).ts
                  p2_delta == Abs(p2_pts - approx_start_time)
              IN  IF p2_pts >= approx_start_time
                  THEN Some(IF p1_delta <= p2_delta THEN reader ELSE P2Next(reader))
                  ELSE AlignLoop(approx_start_time, P2Next(reader), p2_delta)
    ELSE Some(IF IsSome(P2Peek1(reader)) THEN P2Next(reader) ELSE reader)

\* the body of the for loop of lib.rs 92-168
\* an aligner that would leave every cursor where it is
SynchronizeReaderKeepsAll(approx_start_time, reader) ==
    IF IsNone(P2Peek1(reader)) \/ IsNone(P2Peek2(reader)) THEN None
    ELSE IF ~Unwrap(P2Peek1(reader)).ok \/ ~Unwrap(P2Peek2(reader)).ok THEN None
    ELSE Some(reader)

\* an aligner that would enter its loop whatever the first frame is
SynchronizeReaderAlwaysLoops(approx_start_time, reader) ==
    IF IsNone(P2Peek1(reader)) \/ IsNone(P2Peek2(reader)) THEN None
    ELSE IF ~Unwrap(P2Peek1(reader)).ok \/ ~Unwrap(P2Peek2(reader)).ok THEN None
    ELSE AlignLoop(approx_start_time, reader,
                   Abs(Unwrap(P2Peek1(reader)).ts - approx_start_time))

SynchronizeReader(approx_start_time, reader) ==
    IF IsNone(P2Peek1(reader)) \/ IsNone(P2Peek2(reader)) THEN None
    ELSE IF ~Unwrap(P2Peek1(reader)).ok \/ ~Unwrap(P2Peek2(reader)).ok THEN None
    ELSE LET p1_pts == Unwrap(P2Peek1(reader)).ts
             p1_delta == Abs(p1_pts - approx_start_time)
         IN  IF p1_pts >= approx_start_time THEN Some(reader)
             ELSE AlignLoop(approx_start_time, reader, p1_delta)

SynchronizePanics(approx_start_time, readers) ==
    \E i \in 1..Len(readers) : IsNone(SynchronizeReader(approx_start_time, readers[i]))

SynchronizeReadersFrom(approx_start_time, readers) ==
    [i \in 1..Len(readers) |-> Unwrap(SynchronizeReader(approx_start_time, readers[i]))]

\* the position of the first frame that fails to decode, 0 if there is none
FirstErr(frames) ==
    IF \A k \in 1..Len(frames) : frames[k].ok THEN 0
    ELSE CHOOSE k \in 1..Len(frames) :
            ~frames[k].ok /\ \A j \in 1..(k - 1) : frames[j].ok

\* the frame sources after synchronize_readers_from, which stops at the
\* first reader it panics on, having fetched the frame it could not unwrap
AlignedSources(fs, videos, approx_start_time, readers) ==
    LET res == [i \in 1..Len(readers) |-> SynchronizeReader(approx_start_time, readers[i])]
        bad == {i \in 1..Len(readers) : IsNone(res[i])}
    IN  [i \in 1..Len(fs) |->
            IF i > Len(readers) \/ \E j \in bad : j < i THEN fs[i]
            ELSE IF i \in bad
            THEN [fs[i] EXCEPT !.pulled = IF FirstErr(videos[i].frames) > @
                                          THEN FirstErr(videos[i].frames) ELSE @]
            ELSE [fs[i] EXCEPT !.pulled = PulledOf(videos[i].frames, Unwrap(res[i]))]]

(***************************************************************************)
(* Frame duration and sync threshold (lib.rs 621-655).                     *)
(***************************************************************************)
\* the unwraps of lib.rs 628-645 need two decoded frames in every reader, and
\* the one of lib.rs 649 needs a reader
FrameDurationPanics(c, readers) ==
    /\ IsNone(c.frame_duration_microsecs)
    /\ \/ Len(readers) = 0
       \/ \E i \in 1..Len(readers) :
             \/ Len(readers[i]) < 2
             \/ ~readers[i][1].ok
             \/ ~readers[i][2].ok

FrameDuration(c, readers) ==
    IF IsSome(c.frame_duration_microsecs)
    THEN MicrosToDuration(Unwrap(c.frame_duration_microsecs))
    ELSE SeqMin([i \in 1..Len(readers) |->
                    Unwrap(P2Peek2(readers[i])).ts - Unwrap(P2Peek1(readers[i])).ts])

\* a default that would be the whole frame duration
SyncThresholdWhole(c, duration) ==
    IF IsSome(c.sync_threshold_microseconds)
    THEN MicrosToDuration(Unwrap(c.sync_threshold_microseconds))
    ELSE duration

SyncThreshold(c, duration) ==
    IF IsSome(c.sync_threshold_microseconds)
    THEN MicrosToDuration(Unwrap(c.sync_threshold_microseconds))
    ELSE HalfDuration(duration)

(***************************************************************************)
(* Moments (lib.rs 48-85).                                                 *)
(***************************************************************************)
OutTimepointPerCamera(timestamp, image, rows) ==
    [timestamp |-> timestamp, image |-> image, this_cam_this_frame |-> rows]

SyncedPictures(timestamp, camera_pictures, braidz_info) ==
    [timestamp |-> timestamp,
     camera_pictures |-> camera_pictures,
     braidz_info |-> braidz_info]

(***************************************************************************)
(* The three moment iterators: braidz_iter::BraidArchiveNoVideoData,       *)
(* braidz_iter::BraidArchiveSyncVideoData and synced_iter::SyncedIter.     *)
(***************************************************************************)
NoIter ==
    [kind |-> "none", camns |-> << >>, names |-> << >>, cams |-> << >>,
     moments |-> << >>, readers |-> << >>, clock |-> 0,
     sync_threshold |-> 0, frame_duration |-> 0]

\* the rows of one archive moment that belong to camera number camn
RowsOf(moment, camn) == SelectSeq(moment.rows, LAMBDA row : row.camn = camn)

\* drop the decoded frames that lie before the window
RECURSIVE DropBefore(_, _)
DropBefore(reader, lo) ==
    IF /\ IsSome(P2Peek1(reader))
       /\ Unwrap(P2Peek1(reader)).ok
       /\ Unwrap(P2Peek1(reader)).ts < lo
    THEN DropBefore(P2Next(reader), lo)
    ELSE reader

\* the frame of this reader for the window [lo, hi], if any, and the reader
\* after it; err when the upcoming frame failed to decode
TakeInWindow(reader, lo, hi) ==
    LET r == DropBefore(reader, lo) IN
    IF IsSome(P2Peek1(r)) /\ ~Unwrap(P2Peek1(r)).ok
    THEN [image |-> None, reader |-> r, err |-> TRUE]
    ELSE IF IsSome(P2Peek1(r)) /\ Unwrap(P2Peek1(r)).ts <= hi
    THEN [image |-> P2Peek1(r), reader |-> P2Next(r), err |-> FALSE]
    ELSE [image |-> None, reader |-> r, err |-> FALSE]

\* what next() returns: Some(Ok(moment)), Some(Err(..)) or None, and the
\* iterator afterwards
Yield(moment, it) == [item |-> Some(moment), err |-> FALSE, it |-> it]
YieldErr(it) == [item |-> None, err |-> TRUE, it |-> it]
Exhausted(it) == [item |-> None, err |-> FALSE, it |-> it]

BraidArchiveNoVideoDataNew(archive, camns) ==
    [NoIter EXCEPT !.kind = "NoVideo", !.camns = camns, !.moments = archive.moments]

BraidArchiveSyncVideoDataNew(archive, camera_names, frame_readers, sync_threshold) ==
    [NoIter EXCEPT !.kind = "SyncVideo", !.names = camera_names,
                   !.cams = archive.cams, !.moments = archive.moments,
                   !.readers = frame_readers, !.sync_threshold = sync_threshold]

SyncedIterNew(frame_readers, sync_threshold, frame_duration) ==
    LET live == SelectSeq(frame_readers, LAMBDA r : Len(r) > 0) IN
    [NoIter EXCEPT !.kind = "Synced", !.readers = frame_readers,
                   !.clock = IF Len(live) = 0 THEN 0
                             ELSE SeqMin([i \in 1..Len(live) |-> live[i][1].ts]),
                   !.sync_threshold = sync_threshold,
                   !.frame_duration = frame_duration]

\* the camera number the archive gives to this camera name, if any
CamnOfName(cams, name) ==
    LET hits == SelectSeq(cams, LAMBDA b : b.cam_id_str = name) IN
    IF Len(hits) = 0 THEN None ELSE Some(hits[1].camn)

NoVideoNext(it) ==
    IF Len(it.moments) = 0 THEN Exhausted(it)
    ELSE LET mom == Head(it.moments) IN
         Yield(SyncedPictures(mom.ts,
                      [i \in 1..Len(it.camns) |->
                          OutTimepointPerCamera(mom.ts, None, RowsOf(mom, it.camns[i]))],
                      Some([trigger_timestamp |-> mom.ts])),
               [it EXCEPT !.moments = Tail(it.moments)])

SyncVideoNext(it) ==
    IF Len(it.moments) = 0 THEN Exhausted(it)
    ELSE LET mom == Head(it.moments)
             lo == mom.ts - it.sync_threshold
             hi == mom.ts + it.sync_threshold
             taken == [i \in 1..Len(it.readers) |-> TakeInWindow(it.readers[i], lo, hi)]
             rows(i) == LET camn == CamnOfName(it.cams, it.names[i]) IN
                        IF IsNone(camn) THEN << >> ELSE RowsOf(mom, Unwrap(camn))
         IN  IF \E i \in 1..Len(it.readers) : taken[i].err THEN YieldErr(it)
             ELSE Yield(SyncedPictures(mom.ts,
                      [i \in 1..Len(it.readers) |->
                          OutTimepointPerCamera(
                              IF IsSome(taken[i].image) THEN Unwrap(taken[i].image).ts
                              ELSE mom.ts,
                              taken[i].image, rows(i))],
                      Some([trigger_timestamp |-> mom.ts])),
                   [it EXCEPT !.moments = Tail(it.moments),
                              !.readers = [i \in 1..Len(it.readers) |-> taken[i].reader]])

SyncedNext(it) ==
    IF \A i \in 1..Len(it.readers) : Len(it.readers[i]) = 0
    THEN Exhausted(it)
    ELSE LET lo == it.clock - it.sync_threshold
             hi == it.clock + it.sync_threshold
             taken == [i \in 1..Len(it.readers) |-> TakeInWindow(it.readers[i], lo, hi)]
         IN  IF \E i \in 1..Len(it.readers) : taken[i].err THEN YieldErr(it)
             ELSE Yield(SyncedPictures(it.clock,
                      [i \in 1..Len(it.readers) |->
                          OutTimepointPerCamera(
                              IF IsSome(taken[i].image) THEN Unwrap(taken[i].image).ts
                              ELSE it.clock,
                              taken[i].image, << >>)],
                      None),
                   [it EXCEPT !.clock = it.clock + it.frame_duration,
                              !.readers = [i \in 1..Len(it.readers) |-> taken[i].reader]])

\* the frame sources once the iterator holds these cursors
IterSources(fs, videos, it) ==
    [i \in 1..Len(fs) |->
        IF i > Len(it.readers) THEN fs[i]
        ELSE LET n == PulledOf(videos[i].frames, it.readers[i]) IN
             [fs[i] EXCEPT !.pulled = IF n > @ THEN n ELSE @]]

IterNext(it) ==
    CASE it.kind = "NoVideo" -> NoVideoNext(it)
      [] it.kind = "SyncVideo" -> SyncVideoNext(it)
      [] it.kind = "Synced" -> SyncedNext(it)
      [] OTHER -> Exhausted(it)

(***************************************************************************)
(* gather_frame_data (lib.rs 775-852).                                     *)
(***************************************************************************)
\* NotNan::new(v).is_ok()
NotNanOk(v) == v # "NaN"

\* PerCamRender::new_render_data: a fresh frame of the camera's template
NewRenderData(source_index, pts_chrono) ==
    [p |-> source_index, png_buf |-> None, points |-> << >>, pts_chrono |-> pts_chrono]

\* PerCamRenderFrame::set_original_image
SetOriginalImage(cam_render_data, frame) ==
    [cam_render_data EXCEPT !.png_buf = Some(frame.data)]

\* FeatureDetectionMethod::CopyExisting for one row (lib.rs 822-827):
\* ok = FALSE stands for the panic of NotNan::new(row_data2d.y).unwrap()
CopyExisting(acc, row) ==
    IF ~acc.ok THEN acc
    ELSE IF NotNanOk(row.x)
         THEN IF NotNanOk(row.y)
              THEN [acc EXCEPT !.points = Append(acc.points, <<row.x, row.y>>)]
              ELSE [acc EXCEPT !.ok = FALSE]
         ELSE acc

RECURSIVE CollectRows(_, _)
CollectRows(acc, rows) ==
    IF Len(rows) = 0 THEN acc
    ELSE CollectRows(CopyExisting(acc, Head(rows)), Tail(rows))

\* a fusion that would fail for a camera without an image
GatherOneNeedsImage(per_cam, source_index) ==
    LET fresh == NewRenderData(source_index, per_cam.timestamp)
        acc == CollectRows([ok |-> TRUE, points |-> << >>], per_cam.this_cam_this_frame)
    IN  [ok |-> acc.ok /\ IsSome(per_cam.image),
         data |-> [fresh EXCEPT !.points = acc.points,
                                !.png_buf = IF IsSome(per_cam.image)
                                            THEN Some(Unwrap(per_cam.image).data)
                                            ELSE None]]

\* a fusion that would leave the render frame without the picture's timestamp
GatherOneNoTimestamp(per_cam, source_index) ==
    LET fresh == NewRenderData(source_index, 0)
        with_image == IF IsSome(per_cam.image)
                      THEN SetOriginalImage(fresh, Unwrap(per_cam.image))
                      ELSE fresh
        acc == CollectRows([ok |-> TRUE, points |-> << >>], per_cam.this_cam_this_frame)
    IN  [ok |-> acc.ok, data |-> [with_image EXCEPT !.points = acc.points]]

\* the body of the per-camera loop (lib.rs 786-850)
GatherOne(per_cam, source_index) ==
    LET fresh == NewRenderData(source_index, per_cam.timestamp)
        with_image == IF IsSome(per_cam.image)
                      THEN SetOriginalImage(fresh, Unwrap(per_cam.image))
                      ELSE fresh
        acc == CollectRows([ok |-> TRUE, points |-> << >>], per_cam.this_cam_this_frame)
    IN  [ok |-> acc.ok,
         data |-> [with_image EXCEPT !.points = acc.points,
                                     !.pts_chrono = per_cam.timestamp]]

\* a row whose x is a number and whose y is not: the unwrap of lib.rs 824
BadRow(row) == NotNanOk(row.x) /\ ~NotNanOk(row.y)

\* the least element of a non-empty set of numbers
Least(S) == CHOOSE k \in S : \A j \in S : k <= j

\* one line written to the Debug outputs
DebugLine(what, n, rowi) == [what |-> what, n |-> n, rowi |-> rowi]

\* the lines gather_frame_data writes to the Debug outputs for one camera
\* (lib.rs 799-816, 831-847): one per row, up to the row whose y panics, or
\* one line "no points"
DebugLinesOne(per_cam, source_index) ==
    LET rows == per_cam.this_cam_this_frame
        bad == {k \in 1..Len(rows) : BadRow(rows[k])}
        last == IF bad = {} THEN Len(rows) ELSE Least(bad)
    IN  IF Len(rows) = 0 THEN <<DebugLine("no points", source_index, 0)>>
        ELSE [k \in 1..last |-> DebugLine("collect", source_index, k - 1)]

\* the lines of the cameras 1..n, in order
RECURSIVE DebugLinesUpTo(_, _)
DebugLinesUpTo(pics, n) ==
    IF n = 0 THEN << >>
    ELSE DebugLinesUpTo(pics, n - 1) \o DebugLinesOne(pics[n], n)

\* status "ok", or "panic" for the assert_eq! of lib.rs 785 or the unwrap of
\* 824; lines: what was written to the Debug outputs meanwhile
GatherFrameData(synced, srcs) ==
    LET pics == synced.camera_pictures IN
    IF Len(pics) # Len(srcs)
    THEN [status |-> "panic", at |-> "assert_eq", data |-> << >>, lines |-> << >>]
    ELSE LET each == [i \in 1..Len(pics) |-> GatherOne(pics[i], i)]
             failed == {i \in 1..Len(pics) : ~each[i].ok}
         IN  IF failed # {}
             THEN [status |-> "panic", at |-> "unwrap_y", data |-> << >>,
                   lines |-> DebugLinesUpTo(pics, Least(failed))]
             ELSE [status |-> "ok", at |-> "",
                   data |-> [i \in 1..Len(pics) |-> each[i].data],
                   lines |-> DebugLinesUpTo(pics, Len(pics))]

(***************************************************************************)
(* Inputs of a run: the configuration, the video files and the archive.    *)
(***************************************************************************)
Frame(ts) == [ts |-> ts, w |-> 2, h |-> 1, data |-> <<7, 7>>, ok |-> TRUE]

\* a frame the reader could not decode: an Err item of the frame iterator
ErrFrame == [ts |-> 0, w |-> 0, h |-> 0, data |-> << >>, ok |-> FALSE]
Stream(tss) == [i \in 1..Len(tss) |-> Frame(tss[i])]

FileCamA == <<"movie", "20211108", "_", "084523", "_", "CamA", ".", "mp4">>
FileShortDate == <<"movie", "2021", "_", "084523", "_", "CamA", ".", "mp4">>
FilePlain == <<"left", ".", "mp4">>

VideoInput(filename, camera_name, title, tss, has_time0) ==
    [filename |-> filename,
     camera_name |-> camera_name,
     title |-> title,
     frame0_time |-> IF has_time0 /\ Len(tss) > 0 THEN Some(tss[1]) ELSE None,
     frames |-> Stream(tss)]

BaseVideo == VideoInput(FileCamA, None, None, <<0, 1000, 2000>>, TRUE)

\* video inputs that differ in how the camera is named
IdentityVideos ==
    {VideoInput(f, c, t, <<0, 1000, 2000>>, TRUE) :
        f \in {FileCamA, FileShortDate, FilePlain},
        c \in {None, Some(Str("Left"))},
        t \in {None, Some(Str("cama"))}}

\* video inputs that differ in their frames
TimingVideos ==
    {VideoInput(FileCamA, None, None, tss, TRUE) :
        tss \in {<<0, 1000, 2000>>, <<400, 1400, 2400>>, <<1000, 2000>>,
                 <<0, 0, 1000>>, <<0, 999, 2000>>}}

\* video inputs that run_config cannot use: a single frame, no time zero,
\* no frame at all
DegenerateVideos ==
    {VideoInput(FileCamA, None, None, <<0>>, TRUE),
     VideoInput(FileCamA, None, None, <<0, 1000>>, FALSE),
     VideoInput(FileCamA, None, None, << >>, TRUE)}

SeqsUpTo(S, n) == UNION {[1..k -> S] : k \in 0..n}

\* a video file given by its frames and by the time zero its source reports
VideoFile(frames, frame0_time) ==
    [filename |-> FileCamA,
     camera_name |-> None,
     title |-> None,
     frame0_time |-> frame0_time,
     frames |-> frames]

\* video inputs with one frame that fails to decode
ErrorVideos ==
    {VideoFile(SubSeq(Stream(<<0, 1000, 2000>>), 1, k) \o <<ErrFrame>>
                   \o SubSeq(Stream(<<0, 1000, 2000>>), k + 1, 3),
               Some(0)) : k \in 0..2}

\* video inputs for the start-up alignment: short streams over a few
\* instants, in any order, and any of the instants as time zero
MaxTs == 4
MaxAlignLen == 3
AlignTimes == 0..MaxTs
AlignVideos ==
    {VideoFile(Stream(tss), Some(t0)) :
        tss \in SeqsUpTo(AlignTimes, MaxAlignLen) \ {<< >>},
        t0 \in AlignTimes}

Row(camn, x, y) == [camn |-> camn, x |-> x, y |-> y]
Coords == {"NaN", "inf", "1.0"}

\* an archive: its cameras in the key order of camid2camn, the recorded image
\* sizes, and its moments in stored order
Archive(ids, has_sizes, moments) ==
    [cams |-> [i \in 1..Len(ids) |-> BraidzCamId(ids[i], i - 1)],
     image_sizes |-> IF has_sizes
                     THEN Some([id \in {ids[i] : i \in 1..Len(ids)} |->
                                  IF id = Str("CamA") THEN <<3, 2>> ELSE <<2, 2>>])
                     ELSE None,
     moments |-> moments]

PlainMoments ==
    <<[ts |-> 0, rows |-> <<Row(0, "1.0", "1.0")>>],
      [ts |-> 1000, rows |-> <<Row(0, "1.0", "inf"), Row(1, "1.0", "1.0")>>],
      [ts |-> 2000, rows |-> << >>]>>

BaseArchive == Archive(<<Str("CamA"), Str("CamB")>>, TRUE, PlainMoments)

IdentityArchives ==
    {Archive(ids, TRUE, PlainMoments) :
        ids \in {<<Str("CamA")>>, <<Str("CamA"), Str("CamB")>>,
                 <<Str("CamB"), Str("cama")>>, << >>}}
    \cup {Archive(<<Str("CamA")>>, FALSE, PlainMoments)}

MaxRows == 2

RowArchives ==
    {Archive(<<Str("CamA")>>, TRUE,
             <<[ts |-> 0, rows |-> rows], [ts |-> 1000, rows |-> <<Row(0, "1.0", "1.0")>>]>>) :
        rows \in SeqsUpTo({Row(0, x, y) : x \in Coords, y \in Coords}, MaxRows)}

MaxNumFrames == 2

BaseCfg ==
    [input_braidz |-> None,
     input_video |-> <<BaseVideo>>,
     frame_duration_microsecs |-> None,
     sync_threshold_microseconds |-> None,
     max_num_frames |-> None,
     skip_n_first_output_frames |-> None,
     output |-> <<"DebugTxt">>]

CfgIdentity ==
    {[BaseCfg EXCEPT !.input_video = v, !.input_braidz = a] :
        v \in SeqsUpTo(IdentityVideos, MaxVideos),
        a \in {None} \cup {Some(x) : x \in IdentityArchives}}

CfgTiming ==
    {[BaseCfg EXCEPT !.input_video = v, !.input_braidz = a,
                     !.frame_duration_microsecs = d,
                     !.sync_threshold_microseconds = t] :
        v \in SeqsUpTo(TimingVideos, MaxVideos),
        a \in {None, Some(BaseArchive)},
        d \in {None, Some(0), Some(1)},
        t \in {None, Some(0)}}

CfgDegenerate ==
    {[BaseCfg EXCEPT !.input_video = v, !.input_braidz = a,
                     !.frame_duration_microsecs = d] :
        v \in UNION {{<<x>>, <<BaseVideo, x>>, <<x, BaseVideo>>} : x \in DegenerateVideos},
        a \in {None, Some(BaseArchive)},
        d \in {None, Some(0), Some(1)}}

CfgLoop ==
    {[BaseCfg EXCEPT !.input_video = v, !.input_braidz = a,
                     !.max_num_frames = m,
                     !.skip_n_first_output_frames = k,
                     !.output = o] :
        v \in {<< >>, <<BaseVideo>>},
        a \in {None, Some(BaseArchive)},
        m \in {None} \cup {Some(n) : n \in 0..MaxNumFrames},
        k \in {None, Some(0), Some(1)},
        o \in {<< >>, <<"DebugTxt">>, <<"Video", "Braidz">>}}

CfgRows ==
    {[BaseCfg EXCEPT !.input_video = v, !.input_braidz = Some(a)] :
        v \in {<< >>, <<BaseVideo>>},
        a \in RowArchives}

CfgErrors ==
    {[BaseCfg EXCEPT !.input_video = <<v>>, !.input_braidz = a,
                     !.frame_duration_microsecs = d,
                     !.skip_n_first_output_frames = k,
                     !.output = <<"Video", "Braidz">>] :
        v \in ErrorVideos,
        a \in {None, Some(BaseArchive)},
        d \in {None, Some(1)},
        k \in {None, Some(1), Some(3)}}

\* two cameras of which one started late: the other one ends before the late
\* one starts, or has frames on both sides of its start
LateVideo == VideoFile(Stream(<<5000, 6000>>), Some(5000))
EarlyVideos ==
    {VideoFile(Stream(tss), Some(tss[1])) :
        tss \in {<<0>>, <<0, 1000>>, <<0, 1000, 2000>>, <<2000, 1000, 0>>,
                 <<0, 6000>>, <<0, 5000, 9000>>}}

CfgPair ==
    {[BaseCfg EXCEPT !.input_video = v,
                     !.frame_duration_microsecs = d,
                     !.sync_threshold_microseconds = t] :
        v \in UNION {{<<x, LateVideo>>, <<LateVideo, x>>} : x \in EarlyVideos},
        d \in {None, Some(1)},
        t \in {None, Some(0)}}

\* runs that stop after the start-up alignment: the frame duration is
\* configured, so that streams of a single frame reach the aligner
CfgAlign ==
    {[BaseCfg EXCEPT !.input_video = <<v>>,
                     !.frame_duration_microsecs = Some(1),
                     !.max_num_frames = Some(0),
                     !.output = << >>] :
        v \in AlignVideos}

Configs ==
    CfgIdentity \cup CfgTiming \cup CfgDegenerate \cup CfgLoop \cup CfgRows
        \cup CfgErrors \cup CfgAlign \cup CfgPair

(***************************************************************************)
(* H264Source and RawH264Iter (h264_source.rs).  A NAL unit is its unit    *)
(* type and, for an SEI unit, the one message it carries; times are whole  *)
(* microseconds; nalu_index, frame_idx and next_nal_idx count from 0 as in *)
(* the code.                                                               *)
(***************************************************************************)
Nal(unit_type) == [unit_type |-> unit_type, uuid |-> "", time |-> 0]
Sei(uuid, time) == [unit_type |-> "SEI", uuid |-> uuid, time |-> time]

IsSlice(nal) == nal.unit_type \in {"Idr", "NonIdr"}

\* the chrono instant of an NTP receive time; later NTP times are later instants
NtpToUtc(ntp) == ntp

\* the loop variables of from_nal_units_with_timestamp_source (h264_source.rs 163-172)
ScanStart(data_from_mp4_track) ==
    [precise_timestamp |-> None, frameinfo_recv_ntp |-> None,
     frame0_precision_time |-> None, frame0_frameinfo_recv_ntp |-> None,
     frame_to_nalu_time_info |-> << >>, next_frame_num |-> 0,
     sps |-> data_from_mp4_track]

\* one pass of the loop over the NAL units (h264_source.rs 207-313)
ScanNal(st, nalu_index, nal) ==
    CASE nal.unit_type = "SEI" /\ nal.uuid = "MISPmicrosectime" ->
            [st EXCEPT !.precise_timestamp = Some(nal.time),
                       !.frame0_precision_time =
                           IF st.next_frame_num = 0 THEN Some(nal.time) ELSE @]
      [] nal.unit_type = "SEI" /\ nal.uuid = "strawlab.org/89H" ->
            [st EXCEPT !.frameinfo_recv_ntp = Some(nal.time),
                       !.frame0_frameinfo_recv_ntp =
                           IF st.next_frame_num = 0 THEN Some(nal.time) ELSE @]
      [] nal.unit_type = "Sps" -> [st EXCEPT !.sps = TRUE]
      [] IsSlice(nal) ->
            [st EXCEPT !.frame_to_nalu_time_info =
                           Append(@, [nalu_index |-> nalu_index,
                                      precise_timestamp |-> st.precise_timestamp,
                                      frameinfo_recv_ntp |-> st.frameinfo_recv_ntp]),
                       !.precise_timestamp = None,
                       !.frameinfo_recv_ntp = None,
                       !.next_frame_num = @ + 1]
      [] OTHER -> st

RECURSIVE ScanNalUnits(_, _, _)
ScanNalUnits(st, nal_units, nalu_index) ==
    IF nalu_index >= Len(nal_units) THEN st
    ELSE ScanNalUnits(ScanNal(st, nalu_index, nal_units[nalu_index + 1]),
                      nal_units, nalu_index + 1)

\* h264_source.rs 351-385: the timestamp source resolved from what frame 0
\* carries, or the reason of the error
ResolveTimestampSource(timestamp_source, st, mp4_pts) ==
    CASE timestamp_source = "BestGuess" ->
            IF IsSome(st.frame0_precision_time)
            THEN [err |-> "", timestamp_source |-> Some("MispMicrosectime"),
                  has_timestamps |-> TRUE]
            ELSE IF IsSome(st.frame0_frameinfo_recv_ntp)
            THEN [err |-> "", timestamp_source |-> Some("FrameInfoRecvTime"),
                  has_timestamps |-> TRUE]
            ELSE IF IsSome(mp4_pts)
            THEN [err |-> "", timestamp_source |-> Some("Mp4Pts"), has_timestamps |-> TRUE]
            ELSE [err |-> "", timestamp_source |-> None, has_timestamps |-> FALSE]
      [] timestamp_source = "FrameInfoRecvTime" ->
            IF IsNone(st.frame0_frameinfo_recv_ntp)
            THEN [err |-> "FrameInfo not present", timestamp_source |-> None,
                  has_timestamps |-> FALSE]
            ELSE [err |-> "", timestamp_source |-> Some(timestamp_source),
                  has_timestamps |-> TRUE]
      [] timestamp_source = "MispMicrosectime" ->
            IF IsNone(st.frame0_precision_time)
            THEN [err |-> "timestamp not present", timestamp_source |-> None,
                  has_timestamps |-> FALSE]
            ELSE [err |-> "", timestamp_source |-> Some(timestamp_source),
                  has_timestamps |-> TRUE]
      [] OTHER ->
            IF IsNone(mp4_pts)
            THEN [err |-> "MP4 PTS not present", timestamp_source |-> None,
                  has_timestamps |-> FALSE]
            ELSE [err |-> "", timestamp_source |-> Some(timestamp_source),
                  has_timestamps |-> TRUE]

\* no H264Source
NoSource ==
    [nal_units |-> << >>, mp4_pts |-> None, frame_to_nalu_time_info |-> << >>,
     frame0_precision_time |-> None, frame0_frameinfo_recv_ntp |-> None,
     do_decode_h264 |-> FALSE, timestamp_source |-> None, has_timestamps |-> FALSE]

\* from_nal_units_with_timestamp_source (h264_source.rs 156-402): the source,
\* or the error it returns
FromNalUnitsWithTimestampSource(nal_units, do_decode_h264, mp4_pts, track, timestamp_source) ==
    LET st == ScanNalUnits(ScanStart(track), nal_units, 0)
        resolved == ResolveTimestampSource(timestamp_source, st, mp4_pts)
    IN  IF ~st.sps THEN [err |-> "expected SPS not found", source |-> NoSource]
        ELSE IF resolved.err # "" THEN [err |-> resolved.err, source |-> NoSource]
        ELSE [err |-> "",
              source |-> [nal_units |-> nal_units,
                          mp4_pts |-> mp4_pts,
                          frame_to_nalu_time_info |-> st.frame_to_nalu_time_info,
                          frame0_precision_time |-> st.frame0_precision_time,
                          frame0_frameinfo_recv_ntp |-> st.frame0_frameinfo_recv_ntp,
                          do_decode_h264 |-> do_decode_h264,
                          timestamp_source |-> resolved.timestamp_source,
                          has_timestamps |-> resolved.has_timestamps]]

\* FrameDataSource::iter (h264_source.rs 129-141)
RawH264IterNew == [frame_idx |-> 0, next_nal_idx |-> 0]

\* Duration::to_std of a signed duration, None when it is negative
ToStd(d) == IF d < 0 THEN None ELSE Some(d)

\* a slice that would hold the frame's own slice unit only
FrameNalUnitsSliceOnly(parent, it, nti) ==
    SubSeq(parent.nal_units, nti.nalu_index + 1, nti.nalu_index + 1)

\* h264_source.rs 443: nal_units[next_nal_idx..=nti.nalu_index]
FrameNalUnits(parent, it, nti) ==
    SubSeq(parent.nal_units, it.next_nal_idx + 1, nti.nalu_index + 1)

\* h264_source.rs 449-471: the frame's timestamp, or the unwrap that panics
FrameTimestamp(parent, it, nti) ==
    LET Duration(d) == [panic |-> "", kind |-> "Duration", d |-> d, num |-> 0, den |-> 0]
        Fraction(n, m) == [panic |-> "", kind |-> "Fraction", d |-> 0, num |-> n, den |-> m]
        Panics(at) == [panic |-> at, kind |-> "", d |-> 0, num |-> 0, den |-> 0]
    IN  CASE parent.timestamp_source = Some("MispMicrosectime") ->
                IF IsNone(nti.precise_timestamp) THEN Panics("precise_timestamp.unwrap")
                ELSE LET d == ToStd(Unwrap(nti.precise_timestamp)
                                       - Unwrap(parent.frame0_precision_time))
                     IN  IF IsNone(d) THEN Panics("to_std.unwrap") ELSE Duration(Unwrap(d))
          [] parent.timestamp_source = Some("FrameInfoRecvTime") ->
                IF IsNone(nti.frameinfo_recv_ntp) THEN Panics("frameinfo_recv_ntp.unwrap")
                ELSE LET d == ToStd(NtpToUtc(Unwrap(nti.frameinfo_recv_ntp))
                                       - NtpToUtc(Unwrap(parent.frame0_frameinfo_recv_ntp)))
                     IN  IF IsNone(d) THEN Panics("to_std.unwrap") ELSE Duration(Unwrap(d))
          [] parent.timestamp_source = Some("Mp4Pts") ->
                Duration(Unwrap(parent.mp4_pts)[it.next_nal_idx + 1])
          [] OTHER -> Fraction(it.next_nal_idx, Len(parent.nal_units))

\* RawH264Iter::next (h264_source.rs 437-550) with the outcome of the decoder:
\* the iterator afterwards and the item returned, unless an unwrap panics
RawH264IterNext(parent, it, decoded) ==
    LET frame_number == it.frame_idx
        res == IF it.frame_idx < Len(parent.frame_to_nalu_time_info)
               THEN Some(parent.frame_to_nalu_time_info[it.frame_idx + 1])
               ELSE None
        stepped == [it EXCEPT !.frame_idx = @ + 1]
    IN  IF IsNone(res) THEN [iter |-> stepped, item |-> None, panic |-> ""]
        ELSE LET nti == Unwrap(res)
                 nal_units == FrameNalUnits(parent, it, nti)
                 frame_timestamp == FrameTimestamp(parent, it, nti)
                 after == [stepped EXCEPT !.next_nal_idx = nti.nalu_index + 1]
             IN  IF frame_timestamp.panic # ""
                 THEN [iter |-> after, item |-> None, panic |-> frame_timestamp.panic]
                 ELSE [iter |-> after,
                       item |-> Some([ok |-> ~parent.do_decode_h264 \/ decoded = "image",
                                      idx |-> frame_number,
                                      timestamp |-> [kind |-> frame_timestamp.kind,
                                                     d |-> frame_timestamp.d,
                                                     num |-> frame_timestamp.num,
                                                     den |-> frame_timestamp.den],
                                      nal_units |-> nal_units]),
                       panic |-> ""]

\* a usize, and the usize a wrapping subtraction leaves k below 2^64
Usize(n) == [wrapped |-> FALSE, n |-> n]
WrappedBelow(k) == [wrapped |-> TRUE, n |-> k]

\* RawH264Iter::size_hint (h264_source.rs 552-555): usize subtraction panics
\* on overflow in a build with overflow checks and wraps in one without
SizeHint(parent, it, overflow_checks) ==
    LET len == Len(parent.frame_to_nalu_time_info)
        remaining == IF it.frame_idx <= len THEN Usize(len - it.frame_idx)
                     ELSE WrappedBelow(it.frame_idx - len)
    IN  IF it.frame_idx > len /\ overflow_checks
        THEN [panic |-> "attempt to subtract with overflow", lower |-> Usize(0),
              upper |-> None]
        ELSE [panic |-> "", lower |-> remaining, upper |-> Some(remaining)]

\* the H264 streams: a sequence parameter set or, without one, an access unit
\* delimiter in front, then up to MaxNals units: slices, each with or without
\* a precision time stamp (earlier or later) or a receive time before it
MaxNals == 4
MaxNextAfterEnd == 2
NalChoices ==
    {Sei("MISPmicrosectime", 1000), Sei("MISPmicrosectime", 2000),
     Sei("strawlab.org/89H", 1000), Nal("Idr"), Nal("NonIdr")}
H264Streams ==
    {prefix \o body : prefix \in {<<Nal("Aud")>>, <<Nal("Sps")>>},
                      body \in SeqsUpTo(NalChoices, MaxNals)}
TimestampSources == {"BestGuess", "FrameInfoRecvTime", "MispMicrosectime", "Mp4Pts"}

\* the presentation times of an MP4 track, one per NAL unit: the units of one
\* sample share the time of the sample, and a sample ends with its slice
Mp4Pts(nal_units) ==
    [k \in 1..Len(nal_units) |->
        40 * Cardinality({j \in 1..(k - 1) : IsSlice(nal_units[j])})]

\* no H264 source in use
NoH264 ==
    [status |-> "none", nal_units |-> << >>, err |-> "", source |-> NoSource,
     iter |-> RawH264IterNew, yielded |-> << >>, ended |-> 0,
     op |-> "none", hint |-> None, panic |-> ""]

(***************************************************************************)
(* The Vimba backend (ci2-vimba/src/lib.rs): two open cameras, the frame   *)
(* callback the SDK calls on its own threads, the global done flag, the    *)
(* global mutex around SDK calls and one bounded frame channel per camera. *)
(* N_BUFFER_FRAMES and N_CHANNEL_FRAMES are 10 in the code (lib.rs 27-30); *)
(* the model keeps both small.                                             *)
(***************************************************************************)
N_BUFFER_FRAMES == 1
N_CHANNEL_FRAMES == 1
Cams == {1, 2}
FrameStatuses == {"complete", "incomplete", "undocumented"}

\* the frame the SDK hands to a callback
VmbFrame(status, pixel_format_ok) == [status |-> status, pixel_format_ok |-> pixel_format_ok]

\* a callback that would ignore the done flag
WorksWhenDone(is_done) == TRUE

\* lib.rs 58: if !IS_DONE.load(Ordering::Relaxed)
Works(is_done) == ~is_done

\* lib.rs 60-131: the message built from the frame, or the panic or error
\* that ends the callback before anything is re-queued
MessageOf(frame) ==
    CASE frame.status = "undocumented" -> [failed |-> TRUE, msg |-> "none"]
      [] frame.status = "complete" /\ ~frame.pixel_format_ok ->
            [failed |-> TRUE, msg |-> "none"]
      [] frame.status = "complete" -> [failed |-> FALSE, msg |-> "frame"]
      [] OTHER -> [failed |-> FALSE, msg |-> "error"]

\* the cameras as WrappedModule::camera leaves them (lib.rs 278-331): a sender
\* registered and an empty channel for each, nothing started.  done_by notes
\* what set the done flag first since it was last cleared
OpenedCameras ==
    [status |-> "open",
     is_done |-> FALSE,
     done_by |-> <<"nothing">>,
     mutex |-> <<"free">>,
     acquisition_started |-> [c \in Cams |-> FALSE],
     capturing |-> [c \in Cams |-> FALSE],
     frames |-> [c \in Cams |-> 0],
     queued |-> [c \in Cams |-> 0],
     chan |-> [c \in Cams |-> << >>],
     rx_alive |-> [c \in Cams |-> TRUE],
     cb |-> [c \in Cams |-> "idle"],
     msg |-> [c \in Cams |-> "none"],
     api |-> [c \in Cams |-> "idle"]]

\* no Vimba camera in use
NoVimba == [OpenedCameras EXCEPT !.status = "none"]

(***************************************************************************)
(* run_config (lib.rs 402-773) as a state machine.                         *)
(***************************************************************************)
VARIABLES
    cfg,                \* the configuration of this run
    pc,                 \* the position of run_config
    sources,            \* Vec<CameraSource>
    braidz_only,
    camera_names,
    moment_iter,        \* the boxed moment iterator
    sync_ran,           \* whether synchronize_readers_from was called
    output_storage,     \* Vec<OutputStorage>; frames: what each sink rendered
    n_pulled,           \* items taken from the moment iterator so far
    out_fno,            \* index of the current item in the enumeration
    synced_data,        \* the current moment, if any
    all_cam_render_data,
    next_sink,          \* the sink that renders the current moment next
    fused,              \* the moments passed to gather_frame_data so far
    result,             \* what run_config returned, once it has
    frame_duration,     \* the resolved frame duration, once computed
    sync_threshold,     \* the resolved sync threshold, once computed
    output_init,        \* join_all: the output initialisations that completed
    frame_sources,      \* the frame source of every video input
    peek,               \* a lookahead cursor on its own, with what it has yielded
    h264,               \* an H264 source on its own, with its iterator
    vimba               \* the Vimba cameras, their callbacks and frame channels

vars == <<cfg, pc, sources, braidz_only, camera_names, moment_iter, sync_ran,
          output_storage, n_pulled, out_fno, synced_data, all_cam_render_data,
          next_sink, fused, result, frame_duration, sync_threshold, output_init,
          frame_sources, peek, h264, vimba>>

\* the variables of run_config
run_vars == <<cfg, pc, sources, braidz_only, camera_names, moment_iter, sync_ran,
              output_storage, n_pulled, out_fno, synced_data, all_cam_render_data,
              next_sink, fused, result, frame_duration, sync_threshold, output_init,
              frame_sources>>

\* no lookahead cursor on its own
NoPeek ==
    [cursor |-> Peek2New(<< >>), underlying |-> << >>, yielded |-> << >>,
     op |-> "none", returned |-> None]

Running == [status |-> "running", paths |-> << >>, at |-> ""]
Ok(paths) == [status |-> "ok", paths |-> paths, at |-> ""]
Err(at) == [status |-> "err", paths |-> << >>, at |-> at]
Panic(at) == [status |-> "panic", paths |-> << >>, at |-> at]

HasArchive == IsSome(cfg.input_braidz)
TheArchive == Unwrap(cfg.input_braidz)

Init ==
    /\ cfg \in Configs
    /\ pc = "sources"
    /\ sources = << >>
    /\ braidz_only = FALSE
    /\ camera_names = << >>
    /\ moment_iter = NoIter
    /\ sync_ran = FALSE
    /\ output_storage = << >>
    /\ n_pulled = 0
    /\ out_fno = 0
    /\ synced_data = None
    /\ all_cam_render_data = << >>
    /\ next_sink = 1
    /\ fused = << >>
    /\ result = Running
    /\ frame_duration = None
    /\ sync_threshold = None
    /\ output_init = [order |-> << >>, results |-> << >>]
    /\ frame_sources = [i \in 1..Len(cfg.input_video) |-> Unopened]
    /\ peek = NoPeek
    /\ h264 = NoH264
    /\ vimba = NoVimba

Finish(r) ==
    /\ pc' = "done"
    /\ result' = r

\* lib.rs 452-497: one CameraSource per video input
BuildSources ==
    /\ pc = "sources"
    /\ frame_sources' = OpenedSources(cfg.input_video)
    /\ IF \E i \in 1..Len(cfg.input_video) : SourcePanics(cfg.input_video[i])
       THEN /\ Finish(Panic(SourcePanicAt(cfg.input_video[
                    CHOOSE i \in 1..Len(cfg.input_video) :
                       /\ SourcePanics(cfg.input_video[i])
                       /\ \A j \in 1..(i - 1) : ~SourcePanics(cfg.input_video[j])])))
            /\ UNCHANGED sources
       ELSE /\ sources' = [i \in 1..Len(cfg.input_video) |-> VideoSource(cfg.input_video[i])]
            /\ pc' = "resolve"
            /\ UNCHANGED result
    /\ UNCHANGED <<vimba, h264, peek,
                   cfg, frame_duration, sync_threshold, output_init, braidz_only,
                   camera_names, moment_iter, sync_ran, output_storage, n_pulled, out_fno,
                   synced_data, all_cam_render_data, next_sink, fused>>

\* lib.rs 500-542: pair the video cameras with the archive's cameras
UpdateSources ==
    /\ pc = "resolve"
    /\ sources' = IF HasArchive THEN UpdateAll(sources, TheArchive.cams) ELSE sources
    /\ pc' = "roster"
    /\ UNCHANGED <<vimba, h264, peek,
                   frame_sources, cfg, frame_duration, sync_threshold, output_init,
                   braidz_only, camera_names, moment_iter, sync_ran, output_storage,
                   n_pulled, out_fno, synced_data, all_cam_render_data, next_sink, fused,
                   result>>

\* a roster that would also list the archive's cameras beside the videos
ArchiveRosterAlways(srcs) == HasArchive

\* lib.rs 545-546: the archive's cameras make the roster only when there is no video
UseArchiveRoster(srcs) == Len(srcs) = 0 /\ HasArchive

\* a caller-visible failure instead of "nothing to do"
NoSourcesError == Err("no sources")

\* lib.rs 561-562: no video and no archive is not an error
NoSourcesResult == Ok(<< >>)

\* lib.rs 544-566
BraidzOnlyRoster ==
    /\ pc = "roster"
    /\ IF UseArchiveRoster(sources)
       THEN IF \E i \in 1..Len(TheArchive.cams) :
                   IsNone(FromBraidz(TheArchive, TheArchive.cams[i]))
            THEN /\ Finish(Panic("from_braidz"))
                 /\ UNCHANGED <<sources, braidz_only>>
            ELSE /\ sources' = sources \o
                        [i \in 1..Len(TheArchive.cams) |->
                            CameraSource(BraidzOnly(TheArchive.cams[i]),
                                         Unwrap(FromBraidz(TheArchive, TheArchive.cams[i])))]
                 /\ braidz_only' = TRUE
                 /\ pc' = "names"
                 /\ UNCHANGED result
       ELSE IF Len(sources) = 0
            THEN /\ Finish(NoSourcesResult)
                 /\ UNCHANGED <<sources, braidz_only>>
            ELSE /\ braidz_only' = FALSE
                 /\ pc' = "names"
                 /\ UNCHANGED <<sources, result>>
    /\ UNCHANGED <<vimba, h264, peek,
                   frame_sources, cfg, frame_duration, sync_threshold, output_init,
                   camera_names, moment_iter, sync_ran, output_storage, n_pulled, out_fno,
                   synced_data, all_cam_render_data, next_sink, fused>>

\* the name of one roster camera in camera_names (lib.rs 579-584)
CameraName(source) ==
    IF source.cam_id.kind = "BraidzOnly" THEN Some(Unwrap(source.cam_id.b).cam_id_str)
    ELSE MovieRawName(Unwrap(source.cam_id.m))

\* lib.rs 568-585: the 2D rows by camera number, and camera_names
CameraNames ==
    /\ pc = "names"
    /\ IF \E i \in 1..Len(sources) : IsNone(CameraName(sources[i]))
       THEN /\ Finish(Panic("raw_name"))
            /\ UNCHANGED camera_names
       ELSE /\ camera_names' = [i \in 1..Len(sources) |-> Unwrap(CameraName(sources[i]))]
            /\ pc' = "iter"
            /\ UNCHANGED result
    /\ UNCHANGED <<vimba, h264, peek,
                   frame_sources, cfg, frame_duration, sync_threshold, output_init,
                   sources, braidz_only, moment_iter, sync_ran, output_storage, n_pulled,
                   out_fno, synced_data, all_cam_render_data, next_sink, fused>>

\* CameraSource::take_reader (lib.rs 310-319): what is returned
TakenReader(source) ==
    IF source.cam_id.kind = "BraidzOnly" THEN None
    ELSE Unwrap(source.cam_id.m).reader

\* a take_reader that would hand out the cursor and keep it too
AfterTakeKeepsReader(source) == source

\* CameraSource::take_reader: the source it leaves behind
AfterTake(source) ==
    IF source.cam_id.kind = "BraidzOnly" THEN source
    ELSE [source EXCEPT !.cam_id.m = Some([Unwrap(source.cam_id.m) EXCEPT !.reader = None])]

\* a slip that would hand the iterator no reader for the first camera
FrameReadersDropFirst(srcs) ==
    Tail([i \in 1..Len(srcs) |-> Unwrap(TakenReader(srcs[i]))])

\* lib.rs 605-608: one reader per roster camera, in roster order
FrameReaders(srcs) == [i \in 1..Len(srcs) |-> Unwrap(TakenReader(srcs[i]))]

\* lib.rs 594-600: one camera number per roster camera, in roster order
Camns(srcs) == [i \in 1..Len(srcs) |-> Unwrap(srcs[i].cam_id.b).camn]

\* lib.rs 610-615: the latest of the cameras' start times
ApproxStartTime(srcs) ==
    IF Len(srcs) = 0 THEN None
    ELSE Some(SeqMax([i \in 1..Len(srcs) |-> Unwrap(srcs[i].cam_id.m).frame0_time]))

\* a selection that would keep video timing whenever a video is configured
UsesArchiveTimingNever(c) == FALSE

\* lib.rs 662: the archive drives the merge whenever there is one
UsesArchiveTiming(c) == IsSome(c.input_braidz)

\* lib.rs 587-690: build the moment iterator
BuildMomentIter ==
    /\ pc = "iter"
    /\ IF braidz_only
       THEN IF \E i \in 1..Len(sources) : sources[i].cam_id.kind # "BraidzOnly"
            THEN /\ Finish(Panic("impossible"))
                 /\ UNCHANGED <<moment_iter, sources, sync_ran, frame_duration,
                                sync_threshold>>
            ELSE /\ moment_iter' = BraidArchiveNoVideoDataNew(TheArchive, Camns(sources))
                 /\ pc' = "outputs"
                 /\ UNCHANGED <<sources, sync_ran, result, frame_duration, sync_threshold>>
       ELSE IF \E i \in 1..Len(sources) : IsNone(TakenReader(sources[i]))
            THEN /\ Finish(Panic("take_reader"))
                 /\ UNCHANGED <<moment_iter, sources, sync_ran, frame_duration,
                                sync_threshold>>
            ELSE LET frame_readers == FrameReaders(sources)
                     taken == [i \in 1..Len(sources) |-> AfterTake(sources[i])]
                     approx_start_time == ApproxStartTime(taken)
                 IN  IF FrameDurationPanics(cfg, frame_readers)
                     THEN /\ Finish(Panic("frame_duration"))
                          /\ sources' = taken
                          /\ UNCHANGED <<moment_iter, sync_ran, frame_duration,
                                         sync_threshold>>
                     ELSE LET duration == FrameDuration(cfg, frame_readers)
                              threshold == SyncThreshold(cfg, duration)
                          IN  /\ frame_duration' = Some(duration)
                              /\ sync_threshold' = Some(threshold)
                              /\ sources' = taken
                              /\ IF UsesArchiveTiming(cfg)
                                 THEN /\ moment_iter' = BraidArchiveSyncVideoDataNew(
                                             TheArchive, camera_names, frame_readers,
                                             threshold)
                                      /\ pc' = "outputs"
                                      /\ UNCHANGED <<sync_ran, result>>
                                 ELSE IF IsSome(approx_start_time)
                                 THEN /\ sync_ran' = TRUE
                                      /\ IF SynchronizePanics(Unwrap(approx_start_time),
                                                              frame_readers)
                                         THEN /\ Finish(Panic("synchronize_readers_from"))
                                              /\ UNCHANGED moment_iter
                                         ELSE /\ moment_iter' = SyncedIterNew(
                                                     SynchronizeReadersFrom(
                                                         Unwrap(approx_start_time),
                                                         frame_readers),
                                                     threshold, duration)
                                              /\ pc' = "outputs"
                                              /\ UNCHANGED result
                                 ELSE /\ Finish(Err("no source of frame data"))
                                      /\ UNCHANGED <<moment_iter, sync_ran>>
    /\ frame_sources' =
          IF sync_ran'
          THEN AlignedSources(frame_sources, cfg.input_video,
                              Unwrap(ApproxStartTime(sources)), FrameReaders(sources))
          ELSE frame_sources
    /\ UNCHANGED <<vimba, h264, peek,
                   cfg, braidz_only, camera_names, output_storage, n_pulled, out_fno,
                   synced_data, all_cam_render_data, next_sink, fused, output_init>>

\* an output: its kind, its path, the moments render_frame was given (frames)
\* and, for a Debug output, the lines written to its file
OutputStorage(output, i) ==
    [kind |-> output, path |-> i, frames |-> << >>, lines |-> << >>]

\* writeln! to every Debug output (lib.rs 747-751, 802-816, 832-846)
WriteDebug(storage, lines) ==
    [k \in 1..Len(storage) |->
        IF storage[k].kind = "DebugTxt"
        THEN [storage[k] EXCEPT !.lines = @ \o lines]
        ELSE storage[k]]

Paths(storage) == [i \in 1..Len(storage) |-> storage[i].path]

\* lib.rs 698-725: the initialisation of output i completes, with an
\* OutputStorage or with an error; the futures of join_all complete in any order
InitOutput(i) ==
    /\ pc = "outputs"
    /\ ~\E k \in 1..Len(output_init.order) : output_init.order[k] = i
    /\ \E ok \in BOOLEAN :
          output_init' =
              [order |-> Append(output_init.order, i),
               results |-> Append(output_init.results,
                                  IF ok THEN Some(OutputStorage(cfg.output[i], i))
                                  ELSE None)]
    /\ UNCHANGED <<vimba, h264, peek,
                   frame_sources, cfg, pc, sources, braidz_only, camera_names,
                   moment_iter, sync_ran, output_storage, n_pulled, out_fno, synced_data,
                   all_cam_render_data, next_sink, fused, result, frame_duration,
                   sync_threshold>>

\* the result of the future of output i
SlotOf(init, i) ==
    LET k == CHOOSE k \in 1..Len(init.order) : init.order[k] = i IN init.results[k]

\* a collection that would list the results as they completed
CollectAsCompleted(init, n) == [i \in 1..n |-> init.results[i]]

\* join_all (lib.rs 726): the results in the order of the futures
CollectOutputs(init, n) == [i \in 1..n |-> SlotOf(init, i)]

\* lib.rs 726-729: every future has completed; any failure ends the run
JoinOutputs ==
    /\ pc = "outputs"
    /\ Len(output_init.order) = Len(cfg.output)
    /\ LET slots == CollectOutputs(output_init, Len(cfg.output)) IN
       IF \E i \in 1..Len(slots) : IsNone(slots[i])
       THEN /\ Finish(Err("output"))
            /\ UNCHANGED output_storage
       ELSE /\ output_storage' = [i \in 1..Len(slots) |-> Unwrap(slots[i])]
            /\ pc' = "loop"
            /\ UNCHANGED result
    /\ UNCHANGED <<vimba, h264, peek,
                   frame_sources, cfg, frame_duration, sync_threshold, output_init,
                   sources, braidz_only, camera_names, moment_iter, sync_ran, n_pulled,
                   out_fno, synced_data, all_cam_render_data, next_sink, fused>>

\* a loop that would drop the skipped moments before counting
TakeEndsCountingFused(c, pulled, n_fused) ==
    IsSome(c.max_num_frames) /\ n_fused >= Unwrap(c.max_num_frames)

\* lib.rs 732-735: Iterator::take ends the loop after max_num_frames items
TakeEnds(c, pulled, n_fused) ==
    IsSome(c.max_num_frames) /\ pulled >= Unwrap(c.max_num_frames)

\* a loop that would skip one moment more than configured
SkippedInclusive(c, fno) ==
    IsSome(c.skip_n_first_output_frames) /\ fno <= Unwrap(c.skip_n_first_output_frames)

\* lib.rs 741-745
Skipped(c, fno) ==
    IsSome(c.skip_n_first_output_frames) /\ fno < Unwrap(c.skip_n_first_output_frames)

\* a loop that would test the skip count before the error
SkipBeforeError(c, fno, nx) ==
    IF Skipped(c, fno) THEN "skip"
    ELSE IF nx.err THEN "err"
    ELSE "fuse"

\* lib.rs 739-745: what the loop does with the item it pulled
PullOutcome(c, fno, nx) ==
    IF nx.err THEN "err"
    ELSE IF Skipped(c, fno) THEN "skip"
    ELSE "fuse"

\* lib.rs 738-755: pull the next moment, or leave the loop (lib.rs 769-772)
NextMoment ==
    /\ pc = "loop"
    /\ LET nx == IterNext(moment_iter) IN
       IF TakeEnds(cfg, n_pulled, Len(fused)) \/ (IsNone(nx.item) /\ ~nx.err)
       THEN /\ Finish(Ok(Paths(output_storage)))
            /\ UNCHANGED <<moment_iter, n_pulled, out_fno, synced_data>>
       ELSE /\ n_pulled < MaxPulls
            /\ moment_iter' = nx.it
            /\ n_pulled' = n_pulled + 1
            /\ out_fno' = n_pulled
            /\ LET outcome == PullOutcome(cfg, n_pulled, nx) IN
               IF outcome = "err"
               THEN /\ Finish(Err("moment"))
                    /\ synced_data' = None
               ELSE IF outcome = "skip"
               THEN /\ pc' = "loop"
                    /\ synced_data' = None
                    /\ UNCHANGED result
               ELSE /\ pc' = "gather"
                    /\ synced_data' = nx.item
                    /\ UNCHANGED result
    /\ frame_sources' = IterSources(frame_sources, cfg.input_video, moment_iter')
    /\ output_storage' =
          IF pc' = "gather"
          THEN WriteDebug(output_storage, <<DebugLine("output frame", n_pulled, 0)>>)
          ELSE output_storage
    /\ UNCHANGED <<vimba, h264, peek,
                   cfg, frame_duration, sync_threshold, output_init, sources,
                   braidz_only, camera_names, sync_ran, all_cam_render_data, next_sink,
                   fused>>

\* a fusion that would add the points of a moment to those of the moment before
GatherKeepsPoints ==
    /\ pc = "gather"
    /\ LET res == GatherFrameData(Unwrap(synced_data), sources) IN
       /\ output_storage' = WriteDebug(output_storage, res.lines)
       /\ IF res.status = "panic"
          THEN /\ Finish(Panic(res.at))
               /\ UNCHANGED <<all_cam_render_data, fused, next_sink>>
          ELSE /\ all_cam_render_data' =
                      [i \in 1..Len(res.data) |->
                          [res.data[i] EXCEPT !.points =
                              (IF i <= Len(all_cam_render_data)
                               THEN all_cam_render_data[i].points ELSE << >>) \o @]]
               /\ fused' = Append(fused, [out_fno |-> out_fno,
                                          timestamp |-> Unwrap(synced_data).timestamp])
               /\ next_sink' = 1
               /\ pc' = IF Len(output_storage) = 0 THEN "loop" ELSE "render"
               /\ UNCHANGED result
    /\ UNCHANGED <<vimba, h264, peek,
                   frame_sources, cfg, frame_duration, sync_threshold, output_init,
                   sources, braidz_only, camera_names, moment_iter, sync_ran, n_pulled,
                   out_fno, synced_data>>

\* lib.rs 757-759: gather_frame_data for the current moment
Gather ==
    /\ pc = "gather"
    /\ LET res == GatherFrameData(Unwrap(synced_data), sources) IN
       /\ output_storage' = WriteDebug(output_storage, res.lines)
       /\ IF res.status = "panic"
          THEN /\ Finish(Panic(res.at))
               /\ UNCHANGED <<all_cam_render_data, fused, next_sink>>
          ELSE /\ all_cam_render_data' = res.data
               /\ fused' = Append(fused, [out_fno |-> out_fno,
                                          timestamp |-> Unwrap(synced_data).timestamp])
               /\ next_sink' = 1
               /\ pc' = IF Len(output_storage) = 0 THEN "loop" ELSE "render"
               /\ UNCHANGED result
    /\ UNCHANGED <<vimba, h264, peek,
                   frame_sources, cfg, frame_duration, sync_threshold, output_init,
                   sources, braidz_only, camera_names, moment_iter, sync_ran, n_pulled,
                   out_fno, synced_data>>

\* a failure that would take the moment back from the sinks that rendered it
RenderErrorUndoes(storage, sink, fno) ==
    [k \in 1..Len(storage) |->
        IF k < sink
        THEN [storage[k] EXCEPT !.frames = SelectSeq(@, LAMBDA f : f # fno)]
        ELSE storage[k]]

\* lib.rs 764: `?` returns the error of render_frame; the sinks stay as they are
AfterRenderError(storage, sink, fno) == storage

\* a loop that would pull the next moment once the first sink has rendered
AfterFirstSink(sink, n_sinks) == "loop"

\* lib.rs 762-766: the for loop over output_storage ends after the last sink
AfterRender(sink, n_sinks) == IF sink = n_sinks THEN "loop" ELSE "render"

\* lib.rs 762-766: the next sink renders the current moment, or fails
RenderFrame ==
    /\ pc = "render"
    /\ \E ok \in BOOLEAN :
          IF ok
          THEN /\ output_storage' =
                      [output_storage EXCEPT ![next_sink].frames = Append(@, out_fno)]
               /\ next_sink' = next_sink + 1
               /\ pc' = AfterRender(next_sink, Len(output_storage))
               /\ UNCHANGED result
          ELSE /\ Finish(Err("render_frame"))
               /\ output_storage' = AfterRenderError(output_storage, next_sink, out_fno)
               /\ UNCHANGED next_sink
    /\ UNCHANGED <<vimba, h264, peek,
                   frame_sources, cfg, frame_duration, sync_threshold, output_init,
                   sources, braidz_only, camera_names, moment_iter, sync_ran, n_pulled,
                   out_fno, synced_data, all_cam_render_data, fused>>

Next ==
    \/ BuildSources
    \/ UpdateSources
    \/ BraidzOnlyRoster
    \/ CameraNames
    \/ BuildMomentIter
    \/ \E i \in 1..Len(cfg.output) : InitOutput(i)
    \/ JoinOutputs
    \/ NextMoment
    \/ Gather
    \/ RenderFrame

Spec == Init /\ [][Next]_vars

(***************************************************************************)
(* A lookahead cursor on its own, under any interleaving of its calls.     *)
(***************************************************************************)
MaxPeekLen == 3
PeekItems == {Frame(0), Frame(1000), ErrFrame}

InitPeek2 ==
    /\ cfg = BaseCfg
    /\ pc = "done"
    /\ sources = << >>
    /\ braidz_only = FALSE
    /\ camera_names = << >>
    /\ moment_iter = NoIter
    /\ sync_ran = FALSE
    /\ output_storage = << >>
    /\ n_pulled = 0
    /\ out_fno = 0
    /\ synced_data = None
    /\ all_cam_render_data = << >>
    /\ next_sink = 1
    /\ fused = << >>
    /\ result = Ok(<< >>)
    /\ frame_duration = None
    /\ sync_threshold = None
    /\ output_init = [order |-> << >>, results |-> << >>]
    /\ frame_sources = << >>
    /\ \E items \in SeqsUpTo(PeekItems, MaxPeekLen) :
          peek = [NoPeek EXCEPT !.cursor = Peek2New(items), !.underlying = items,
                                !.op = "new"]
    /\ h264 = NoH264
    /\ vimba = NoVimba

\* peek1()
PeekFirst ==
    /\ peek.op # "none"
    /\ peek' = [peek EXCEPT !.op = "peek1", !.returned = Peek2Peek1(peek.cursor)]
    /\ UNCHANGED <<run_vars, h264, vimba>>

\* peek2()
PeekSecond ==
    /\ peek.op # "none"
    /\ peek' = [peek EXCEPT !.op = "peek2", !.returned = Peek2Peek2(peek.cursor)]
    /\ UNCHANGED <<run_vars, h264, vimba>>

\* next()
Advance ==
    /\ peek.op # "none"
    /\ LET nx == Peek2Next(peek.cursor) IN
       peek' = [peek EXCEPT !.op = "next", !.returned = nx.item,
                            !.cursor = nx.cursor,
                            !.yielded = peek.yielded \o nx.item]
    /\ UNCHANGED <<run_vars, h264, vimba>>

NextPeek2 == PeekFirst \/ PeekSecond \/ Advance

SpecPeek2 == InitPeek2 /\ [][NextPeek2]_vars

(***************************************************************************)
(* An H264 source on its own: it is built from NAL units, iterated, and    *)
(* asked for its size hint at any point of the iteration.                  *)
(***************************************************************************)
InitH264 ==
    /\ cfg = BaseCfg
    /\ pc = "done"
    /\ sources = << >>
    /\ braidz_only = FALSE
    /\ camera_names = << >>
    /\ moment_iter = NoIter
    /\ sync_ran = FALSE
    /\ output_storage = << >>
    /\ n_pulled = 0
    /\ out_fno = 0
    /\ synced_data = None
    /\ all_cam_render_data = << >>
    /\ next_sink = 1
    /\ fused = << >>
    /\ result = Ok(<< >>)
    /\ frame_duration = None
    /\ sync_threshold = None
    /\ output_init = [order |-> << >>, results |-> << >>]
    /\ frame_sources = << >>
    /\ peek = NoPeek
    /\ vimba = NoVimba
    /\ \E nal_units \in H264Streams :
          h264 = [NoH264 EXCEPT !.status = "input", !.nal_units = nal_units]

\* from_nal_units_with_timestamp_source, for raw Annex B data or an MP4 track
H264Open ==
    /\ h264.status = "input"
    /\ \E do_decode_h264 \in BOOLEAN, from_mp4 \in BOOLEAN,
          timestamp_source \in TimestampSources :
          LET made == FromNalUnitsWithTimestampSource(
                          h264.nal_units, do_decode_h264,
                          IF from_mp4 THEN Some(Mp4Pts(h264.nal_units)) ELSE None,
                          from_mp4, timestamp_source)
          IN  h264' = [h264 EXCEPT !.status = IF made.err = "" THEN "open" ELSE "rejected",
                                   !.err = made.err,
                                   !.source = made.source,
                                   !.op = "new"]
    /\ UNCHANGED <<run_vars, peek, vimba>>

\* FrameDataSource::iter
H264Iter ==
    /\ h264.status = "open"
    /\ h264' = [h264 EXCEPT !.status = "iterating", !.iter = RawH264IterNew,
                            !.op = "iter"]
    /\ UNCHANGED <<run_vars, peek, vimba>>

\* RawH264Iter::next, also after the iterator has ended
H264Next ==
    /\ h264.status = "iterating"
    /\ h264.ended < MaxNextAfterEnd
    /\ \E decoded \in IF h264.source.do_decode_h264 THEN {"image", "none", "err"}
                      ELSE {"raw"} :
          LET nx == RawH264IterNext(h264.source, h264.iter, decoded) IN
          h264' = [h264 EXCEPT !.status = IF nx.panic # "" THEN "panic" ELSE @,
                               !.panic = nx.panic,
                               !.iter = nx.iter,
                               !.yielded = @ \o nx.item,
                               !.ended = IF nx.panic = "" /\ IsNone(nx.item)
                                         THEN @ + 1 ELSE @,
                               !.op = "next",
                               !.hint = None]
    /\ UNCHANGED <<run_vars, peek, vimba>>

\* RawH264Iter::size_hint, in a build with or without overflow checks
H264SizeHint ==
    /\ h264.status = "iterating"
    /\ h264.op # "size_hint"
    /\ \E overflow_checks \in BOOLEAN :
          LET hint == SizeHint(h264.source, h264.iter, overflow_checks) IN
          h264' = [h264 EXCEPT !.status = IF hint.panic # "" THEN "panic" ELSE @,
                               !.panic = hint.panic,
                               !.hint = Some([lower |-> hint.lower, upper |-> hint.upper]),
                               !.op = "size_hint"]
    /\ UNCHANGED <<run_vars, peek, vimba>>

NextH264 == H264Open \/ H264Iter \/ H264Next \/ H264SizeHint

SpecH264 == InitH264 /\ [][NextH264]_vars

(***************************************************************************)
(* The Vimba cameras on their own: each camera's owner starts and stops    *)
(* acquisition, takes frames from the channel or drops the camera, while   *)
(* the SDK calls the frame callback for every filled buffer.               *)
(***************************************************************************)
InitVimba ==
    /\ cfg = BaseCfg
    /\ pc = "done"
    /\ sources = << >>
    /\ braidz_only = FALSE
    /\ camera_names = << >>
    /\ moment_iter = NoIter
    /\ sync_ran = FALSE
    /\ output_storage = << >>
    /\ n_pulled = 0
    /\ out_fno = 0
    /\ synced_data = None
    /\ all_cam_render_data = << >>
    /\ next_sink = 1
    /\ fused = << >>
    /\ result = Ok(<< >>)
    /\ frame_duration = None
    /\ sync_threshold = None
    /\ output_init = [order |-> << >>, results |-> << >>]
    /\ frame_sources = << >>
    /\ peek = NoPeek
    /\ h264 = NoH264
    /\ vimba = OpenedCameras

\* IS_DONE.store(true, Ordering::Relaxed)
SetDone(v, by) ==
    [v EXCEPT !.is_done = TRUE, !.done_by = IF v.is_done THEN @ ELSE by]

\* the callback ends in a panic, which callback_c catches (lib.rs 184-191)
CallbackPanics(c) ==
    [SetDone(vimba, <<"callback", c>>) EXCEPT !.cb[c] = "idle", !.msg[c] = "none"]

\* the SDK calls callback_c with a filled buffer of camera c (lib.rs 174-186),
\* and callback_rust runs up to the re-queueing (lib.rs 52-131)
CallbackCopy(c) ==
    /\ vimba.status = "open"
    /\ vimba.capturing[c] /\ vimba.queued[c] > 0 /\ vimba.cb[c] = "idle"
    /\ \E status \in FrameStatuses, pixel_format_ok \in BOOLEAN :
          LET taken == [vimba EXCEPT !.queued[c] = @ - 1]
              made == MessageOf(VmbFrame(status, pixel_format_ok))
          IN  vimba' = IF ~Works(vimba.is_done) THEN taken
                       ELSE IF made.failed
                       THEN [SetDone(taken, <<"callback", c>>) EXCEPT !.cb[c] = "idle"]
                       ELSE [taken EXCEPT !.cb[c] = "lock", !.msg[c] = made.msg]
    /\ UNCHANGED <<run_vars, peek, h264>>

\* lib.rs 135: VIMBA_MUTEX.lock()
CallbackLock(c) ==
    /\ vimba.cb[c] = "lock"
    /\ vimba.mutex = <<"free">>
    /\ vimba' = [vimba EXCEPT !.mutex = <<"callback", c>>, !.cb[c] = "requeue"]
    /\ UNCHANGED <<run_vars, peek, h264>>

\* a callback that would keep the mutex until its frame is sent
CallbackRequeueKeepsMutex(c) ==
    /\ vimba.cb[c] = "requeue"
    /\ vimba' = IF vimba.capturing[c] /\ vimba.frames[c] > 0
                THEN [vimba EXCEPT !.queued[c] = @ + 1, !.cb[c] = "send"]
                ELSE [CallbackPanics(c) EXCEPT !.mutex = <<"free">>]
    /\ UNCHANGED <<run_vars, peek, h264>>

\* lib.rs 134-161: VmbCaptureFrameQueue under the mutex, which fails for a
\* frame that was revoked; then the sender of this camera is looked up
CallbackRequeue(c) ==
    /\ vimba.cb[c] = "requeue"
    /\ vimba' = IF vimba.capturing[c] /\ vimba.frames[c] > 0
                THEN [vimba EXCEPT !.mutex = <<"free">>, !.queued[c] = @ + 1,
                                   !.cb[c] = "send"]
                ELSE [CallbackPanics(c) EXCEPT !.mutex = <<"free">>]
    /\ UNCHANGED <<run_vars, peek, h264>>

\* lib.rs 163-169: tx.send(msg) blocks while the channel is full and fails
\* once the receiver is gone
CallbackSend(c) ==
    /\ vimba.cb[c] = "send"
    /\ IF vimba.rx_alive[c]
       THEN /\ Len(vimba.chan[c]) < N_CHANNEL_FRAMES
            /\ vimba' = [vimba EXCEPT !.chan[c] = Append(@, vimba.msg[c]),
                                      !.cb[c] = "idle", !.msg[c] = "none"]
       ELSE vimba' = [SetDone(vimba, <<"callback", c>>) EXCEPT
                          !.cb[c] = "idle", !.msg[c] = "none"]
    /\ UNCHANGED <<run_vars, peek, h264>>

\* acquisition_start up to the mutex (lib.rs 756-768)
AcquisitionStart(c) ==
    /\ vimba.status = "open"
    /\ vimba.api[c] = "idle" /\ ~vimba.acquisition_started[c] /\ vimba.rx_alive[c]
    /\ vimba' = [vimba EXCEPT !.is_done = FALSE,
                              !.done_by = <<"nothing">>,
                              !.frames[c] = N_BUFFER_FRAMES,
                              !.api[c] = "start"]
    /\ UNCHANGED <<run_vars, peek, h264>>

\* acquisition_start under the mutex (lib.rs 770-784)
AcquisitionStartLocked(c) ==
    /\ vimba.api[c] = "start"
    /\ vimba.mutex = <<"free">>
    /\ vimba' = [vimba EXCEPT !.capturing[c] = TRUE,
                              !.queued[c] = vimba.frames[c],
                              !.acquisition_started[c] = TRUE,
                              !.api[c] = "idle"]
    /\ UNCHANGED <<run_vars, peek, h264>>

\* acquisition_stop up to the mutex (lib.rs 787-790)
AcquisitionStop(c) ==
    /\ vimba.status = "open"
    /\ vimba.api[c] = "idle" /\ vimba.acquisition_started[c]
    /\ vimba' = [SetDone(vimba, <<"stop", c>>) EXCEPT !.api[c] = "stop"]
    /\ UNCHANGED <<run_vars, peek, h264>>

\* lib.rs 793: VIMBA_MUTEX.lock()
AcquisitionStopLock(c) ==
    /\ vimba.api[c] = "stop"
    /\ vimba.mutex = <<"free">>
    /\ vimba' = [vimba EXCEPT !.mutex = <<"stop", c>>, !.api[c] = "stop locked"]
    /\ UNCHANGED <<run_vars, peek, h264>>

\* acquisition_stop under the mutex, and its return (lib.rs 794-802): with
\* Ok, or with the error of the AcquisitionStop command, which leaves the
\* capture as it is
AcquisitionStopLocked(c) ==
    /\ vimba.api[c] = "stop locked"
    /\ \E command_ok \in BOOLEAN :
          vimba' = IF command_ok
                   THEN [vimba EXCEPT !.capturing[c] = FALSE,
                                      !.queued[c] = 0,
                                      !.frames[c] = 0,
                                      !.mutex = <<"free">>,
                                      !.acquisition_started[c] = FALSE,
                                      !.api[c] = "idle"]
                   ELSE [vimba EXCEPT !.mutex = <<"free">>, !.api[c] = "idle"]
    /\ UNCHANGED <<run_vars, peek, h264>>

\* next_frame with a message waiting (lib.rs 804-816)
NextFrame(c) ==
    /\ vimba.status = "open"
    /\ vimba.api[c] = "idle" /\ vimba.rx_alive[c]
    /\ Len(vimba.chan[c]) > 0
    /\ vimba' = [vimba EXCEPT !.chan[c] = Tail(@)]
    /\ UNCHANGED <<run_vars, peek, h264>>

\* the owner drops a camera that is not acquiring, and its receiver with it
DropCamera(c) ==
    /\ vimba.status = "open"
    /\ vimba.api[c] = "idle" /\ ~vimba.acquisition_started[c] /\ vimba.rx_alive[c]
    /\ vimba' = [vimba EXCEPT !.rx_alive[c] = FALSE, !.chan[c] = << >>]
    /\ UNCHANGED <<run_vars, peek, h264>>

NextVimba ==
    \E c \in Cams :
        \/ CallbackCopy(c)
        \/ CallbackLock(c)
        \/ CallbackRequeue(c)
        \/ CallbackSend(c)
        \/ AcquisitionStart(c)
        \/ AcquisitionStartLocked(c)
        \/ AcquisitionStop(c)
        \/ AcquisitionStopLock(c)
        \/ AcquisitionStopLocked(c)
        \/ NextFrame(c)
        \/ DropCamera(c)

SpecVimba == InitVimba /\ [][NextVimba]_vars

TypeOK ==
    /\ pc \in {"sources", "resolve", "roster", "names", "iter", "outputs", "loop",
               "gather", "render", "done"}
    /\ result.status \in {"running", "ok", "err", "panic"}
    /\ (pc = "done") = (result.status # "running")

(***************************************************************************)
(* Properties.                                                             *)
(***************************************************************************)
NumVideos == Len(cfg.input_video)

\* the roster is complete: run_config is past lib.rs 566
RosterBuilt == pc \in {"names", "iter", "outputs", "loop", "gather", "render"}

\* identity resolution is over: run_config is past lib.rs 542
Resolved == pc \in {"roster"} \/ RosterBuilt

\* the moment iterator exists: run_config is past lib.rs 690
IterBuilt == pc \in {"outputs", "loop", "gather", "render"}

\* the raw name of a configured video, from the input itself
InputRawName(v) == IF IsSome(v.title) THEN v.title ELSE CamFromFilename(v.filename)

ArchiveCamsNamed(name) ==
    IF HasArchive
    THEN {i \in 1..Len(TheArchive.cams) : Some(TheArchive.cams[i].cam_id_str) = name}
    ELSE {}

\* C1: every moment the selected iterator delivers has one camera_pictures
\* entry per roster camera, so the assertion at the start of gather_frame_data
\* holds for the moment about to be fused and for the one the iterator yields next.
C1_OnePicturePerCamera ==
    /\ pc = "gather" => Len(Unwrap(synced_data).camera_pictures) = Len(sources)
    /\ IterBuilt =>
          LET nx == IterNext(moment_iter) IN
          IsSome(nx.item) => Len(Unwrap(nx.item).camera_pictures) = Len(sources)

\* a moment of two or more cameras, one with an image and one without
C1_Witness ==
    /\ pc = "gather"
    /\ Len(sources) >= 2
    /\ \E i, j \in 1..Len(Unwrap(synced_data).camera_pictures) :
          /\ IsNone(Unwrap(synced_data).camera_pictures[i].image)
          /\ IsSome(Unwrap(synced_data).camera_pictures[j].image)

\* C2: the moments handed to fusion have strictly increasing timestamps.
C2_StrictlyIncreasing ==
    \A i \in 1..(Len(fused) - 1) : fused[i].timestamp < fused[i + 1].timestamp

ExpectedKind ==
    IF HasArchive /\ NumVideos = 0 THEN "NoVideo"
    ELSE IF HasArchive THEN "SyncVideo"
    ELSE "Synced"

\* C3: the iterator is chosen by (archive present, number of videos) alone, and
\* synchronize_readers_from runs exactly for the free-running merge, never with
\* an archive.
C3_ModeByInputs ==
    /\ moment_iter.kind # "none" => moment_iter.kind = ExpectedKind
    /\ IterBuilt => moment_iter.kind # "none"
    /\ sync_ran => ~HasArchive /\ NumVideos >= 1
    /\ moment_iter.kind = "Synced" => sync_ran

\* the archive-driven merge with a video that matched no archive camera
C3_Witness ==
    /\ moment_iter.kind = "SyncVideo"
    /\ \E i \in 1..Len(sources) : sources[i].cam_id.kind = "MovieOnly"

\* C4: after identity resolution a video camera is of kind Both exactly when an
\* archive camera's id string equals its raw name, and it is then paired with
\* that archive camera; otherwise it is still MovieOnly.
C4_BothIffNameEqual ==
    (Resolved /\ NumVideos >= 1) =>
        /\ Len(sources) = NumVideos
        /\ \A i \in 1..NumVideos :
              LET hits == ArchiveCamsNamed(InputRawName(cfg.input_video[i])) IN
              IF hits # {}
              THEN /\ sources[i].cam_id.kind = "Both"
                   /\ \E k \in hits : sources[i].cam_id.b = Some(TheArchive.cams[k])
              ELSE /\ sources[i].cam_id.kind = "MovieOnly"
                   /\ sources[i].cam_id.b = None

\* one video paired through its file name, another left alone although its
\* title differs from an archive id only in case
C4_Witness ==
    /\ pc = "roster"
    /\ HasArchive
    /\ \E i, j \in 1..Len(sources) :
          /\ sources[i].cam_id.kind = "Both"
          /\ IsNone(Unwrap(sources[i].cam_id.m).title)
          /\ sources[j].cam_id.kind = "MovieOnly"
          /\ Unwrap(sources[j].cam_id.m).title = Some(Str("cama"))
          /\ ArchiveCamsNamed(Some(Str("CamA"))) # {}

\* the archive cameras that are in the roster
RosterArchiveCams ==
    {k \in 1..Len(TheArchive.cams) :
        \E i \in 1..Len(sources) : sources[i].cam_id.b = Some(TheArchive.cams[k])}

\* C5 as claimed: with an archive and a video, every archive camera is in the roster.
C5_EveryArchiveCameraInRoster ==
    (RosterBuilt /\ HasArchive /\ NumVideos >= 1) =>
        RosterArchiveCams = 1..Len(TheArchive.cams)

\* C5 as amended: with an archive and a video, the roster is the configured
\* videos and nothing else; it has no archive-only identity, and an archive
\* camera is in it exactly when a video's raw name equals its id string.
C5_RosterIsVideosOnly ==
    (RosterBuilt /\ HasArchive /\ NumVideos >= 1) =>
        /\ Len(sources) = NumVideos
        /\ ~braidz_only
        /\ \A i \in 1..Len(sources) : sources[i].cam_id.kind # "BraidzOnly"
        /\ RosterArchiveCams =
              {k \in 1..Len(TheArchive.cams) :
                  \E j \in 1..NumVideos :
                      InputRawName(cfg.input_video[j]) = Some(TheArchive.cams[k].cam_id_str)}

\* a roster of videos beside an archive one of whose cameras matched none of them
C5_Witness ==
    /\ RosterBuilt /\ HasArchive /\ NumVideos >= 1
    /\ RosterArchiveCams # 1..Len(TheArchive.cams)
    /\ RosterArchiveCams # {}

\* the name by the priority configured name, title, file name
InputBestName(v) ==
    IF IsSome(v.camera_name) THEN Unwrap(v.camera_name)
    ELSE IF IsSome(v.title) THEN Unwrap(v.title)
    ELSE v.filename

\* C6 as claimed: the best name of a video-only identity follows the priority,
\* that of every identity with an archive camera is the archive id string.
C6_ArchiveNameWhenArchiveInvolved ==
    Resolved =>
        \A i \in 1..Len(sources) :
            BestName(sources[i].cam_id) =
                IF sources[i].cam_id.kind = "MovieOnly"
                THEN InputBestName(cfg.input_video[i])
                ELSE Unwrap(sources[i].cam_id.b).cam_id_str

\* C6 as amended: the best name of every identity with a video (video-only or
\* both) is the configured name, else the title, else the file name; only an
\* archive-only identity is named by the archive id string.
C6_BestNameByKind ==
    Resolved =>
        \A i \in 1..Len(sources) :
            BestName(sources[i].cam_id) =
                IF sources[i].cam_id.kind \in {"MovieOnly", "Both"}
                THEN InputBestName(cfg.input_video[i])
                ELSE Unwrap(sources[i].cam_id.b).cam_id_str

\* a paired camera whose best name is not the archive id string
C6_Witness ==
    /\ Resolved
    /\ \E i \in 1..Len(sources) :
          /\ sources[i].cam_id.kind = "Both"
          /\ BestName(sources[i].cam_id) # Unwrap(sources[i].cam_id.b).cam_id_str

C8_NothingToDo ==
    (~HasArchive /\ NumVideos = 0) =>
        /\ pc \in {"sources", "resolve", "roster", "done"}
        /\ pc = "done" => result = Ok(<< >>)
        /\ moment_iter.kind = "none"
        /\ output_storage = << >>
        /\ n_pulled = 0
        /\ fused = << >>

\* the run with no input has returned, although outputs were configured
C8_Witness ==
    /\ ~HasArchive /\ NumVideos = 0
    /\ pc = "done"
    /\ Len(cfg.output) >= 1

SkipCount ==
    IF IsSome(cfg.skip_n_first_output_frames)
    THEN Unwrap(cfg.skip_n_first_output_frames)
    ELSE 0

\* the run ended after its iterator was built
IterBuiltAtEnd == moment_iter.kind # "none"

\* the run returned Ok after the cap of max_num_frames ended the loop
EndedByCap ==
    /\ pc = "done"
    /\ result.status = "ok"
    /\ IsSome(cfg.max_num_frames)
    /\ n_pulled = Unwrap(cfg.max_num_frames)

\* C9 as claimed: a run capped at max_num_frames = N fuses, and gives every
\* sink, exactly N moments.
C9_ExactlyMaxNumFrames ==
    EndedByCap =>
        /\ Len(fused) = Unwrap(cfg.max_num_frames)
        /\ \A k \in 1..Len(output_storage) :
              Len(output_storage[k].frames) = Unwrap(cfg.max_num_frames)

\* C9 as amended: the cap counts the moments pulled, the skipped ones
\* included.  A run with max_num_frames = N that returns Ok has pulled at most
\* N moments, and exactly N unless the iterator ended first; of the n it
\* pulled it has fused, and given every sink, exactly max(n - s, 0), s being
\* skip_n_first_output_frames (0 if unset).
C9_CapCountsSkipped ==
    (pc = "done" /\ result.status = "ok" /\ IsSome(cfg.max_num_frames) /\ IterBuiltAtEnd) =>
        LET kept == IF n_pulled >= SkipCount THEN n_pulled - SkipCount ELSE 0 IN
        /\ n_pulled <= Unwrap(cfg.max_num_frames)
        /\ n_pulled < Unwrap(cfg.max_num_frames) => IsNone(IterNext(moment_iter).item)
        /\ Len(fused) = kept
        /\ \A k \in 1..Len(output_storage) : Len(output_storage[k].frames) = kept

\* a capped run that skipped a moment and still delivered one
C9_Witness ==
    /\ EndedByCap
    /\ SkipCount = 1
    /\ Unwrap(cfg.max_num_frames) = 2
    /\ Len(output_storage) >= 1
    /\ Len(fused) = 1

Finite(v) == v \notin {"NaN", "inf"}

ValidRows(rows) == SelectSeq(rows, LAMBDA row : Finite(row.x) /\ Finite(row.y))

\* C10: fusion of any moment succeeds, and gives each camera exactly the rows
\* whose x and y are both finite, in row order.
C10_InvalidRowsSkipped ==
    pc = "gather" =>
        LET pics == Unwrap(synced_data).camera_pictures
            res == GatherFrameData(Unwrap(synced_data), sources)
        IN  /\ res.status = "ok"
            /\ \A i \in 1..Len(pics) :
                  res.data[i].points =
                      [k \in 1..Len(ValidRows(pics[i].this_cam_this_frame)) |->
                          <<ValidRows(pics[i].this_cam_this_frame)[k].x,
                            ValidRows(pics[i].this_cam_this_frame)[k].y>>]

\* the indices of the moments fused so far, in order
FusedFnos == [k \in 1..Len(fused) |-> fused[k].out_fno]

\* C11: a camera without an image in a moment is not an error.  Fusion fails
\* only for a row (never for a missing image); when it succeeds, a camera
\* without an image gets a render frame without image buffer, and without
\* points when it has no rows, every camera with an image gets that image, and
\* once the loop is back at its head every sink has received every fused moment.
C11_NoImageIsNotAnError ==
    /\ pc = "gather" =>
          LET pics == Unwrap(synced_data).camera_pictures
              res == GatherFrameData(Unwrap(synced_data), sources)
          IN  /\ res.status = "panic" =>
                    \E i \in 1..Len(pics) :
                       \E k \in 1..Len(pics[i].this_cam_this_frame) :
                          BadRow(pics[i].this_cam_this_frame[k])
              /\ res.status = "ok" =>
                    \A i \in 1..Len(pics) :
                       /\ IsNone(pics[i].image) =>
                             /\ IsNone(res.data[i].png_buf)
                             /\ Len(pics[i].this_cam_this_frame) = 0 =>
                                   res.data[i].points = << >>
                       /\ IsSome(pics[i].image) =>
                             res.data[i].png_buf = Some(Unwrap(pics[i].image).data)
    /\ pc = "loop" =>
          \A k \in 1..Len(output_storage) : output_storage[k].frames = FusedFnos

\* a moment in which one camera had no image and another had one was fused
\* and every sink received it
C11_Witness ==
    /\ pc = "loop"
    /\ Len(fused) >= 1
    /\ Len(output_storage) >= 1
    /\ \A k \in 1..Len(output_storage) : output_storage[k].frames = FusedFnos
    /\ \E i, j \in 1..Len(all_cam_render_data) :
          /\ IsNone(all_cam_render_data[i].png_buf)
          /\ all_cam_render_data[i].points = << >>
          /\ IsSome(all_cam_render_data[j].png_buf)

\* C12: when the item the loop pulls from the moment iterator is an error,
\* run_config returns that error in the same step, also when the index of the
\* item lies in the range of skip_n_first_output_frames: nothing is fused and
\* no sink receives anything for it, and nothing happens after the return.
C12_ErrorItemEndsRun ==
    [][/\ (/\ pc = "loop"
           /\ ~TakeEnds(cfg, n_pulled, Len(fused))
           /\ IterNext(moment_iter).err)
          => /\ pc' = "done"
             /\ result' = Err("moment")
             /\ n_pulled' = n_pulled + 1
             /\ fused' = fused
             /\ output_storage' = output_storage
       /\ pc = "done" => UNCHANGED vars]_vars

\* the run ended with the error of an item whose index is in the skipped
\* range, after earlier items were pulled
C12_Witness ==
    /\ pc = "done"
    /\ result = Err("moment")
    /\ n_pulled = out_fno + 1
    /\ out_fno >= 1
    /\ out_fno < SkipCount
    /\ IterNext(moment_iter).err

\* all but the last element of a sequence
Front(seq) == SubSeq(seq, 1, Len(seq) - 1)

\* what sink k holds while the last fused moment is being rendered and
\* next_sink is the sink that renders it next
FramesDuringRender(k) == IF k < next_sink THEN FusedFnos ELSE Front(FusedFnos)

\* C13: when render_frame of a sink fails on moment i, the run ends with that
\* error: moment i is the last item pulled and the last one fused, the sinks
\* before the failing one hold every fused moment including i, the failing
\* sink and the later ones hold every fused moment except i, and no sink
\* holds any other moment.
C13_SinkFailureEndsRun ==
    (pc = "done" /\ result = Err("render_frame")) =>
        /\ next_sink \in 1..Len(output_storage)
        /\ n_pulled = out_fno + 1
        /\ Len(fused) >= 1
        /\ fused[Len(fused)].out_fno = out_fno
        /\ \A k \in 1..Len(output_storage) :
              output_storage[k].frames = FramesDuringRender(k)

\* the second of two sinks failed on the second fused moment
C13_Witness ==
    /\ pc = "done"
    /\ result = Err("render_frame")
    /\ Len(output_storage) = 2
    /\ next_sink = 2
    /\ Len(fused) = 2
    /\ Len(output_storage[1].frames) = 2
    /\ Len(output_storage[2].frames) = 1

\* C14: the moment loop is sequential.  The moments are fused in increasing
\* index order, each once; while a moment is fused or rendered it is the last
\* item pulled; the sinks receive it in configured order; and whenever the
\* loop is at its head, where the next item is pulled, every sink holds every
\* fused moment, in index order.
C14_LoopIsSequential ==
    /\ \A a, b \in 1..Len(fused) : a < b => fused[a].out_fno < fused[b].out_fno
    /\ pc = "gather" =>
          /\ n_pulled = out_fno + 1
          /\ \A a \in 1..Len(fused) : fused[a].out_fno < out_fno
          /\ \A k \in 1..Len(output_storage) : output_storage[k].frames = FusedFnos
    /\ pc = "render" =>
          /\ n_pulled = out_fno + 1
          /\ next_sink \in 1..Len(output_storage)
          /\ Len(fused) >= 1
          /\ fused[Len(fused)].out_fno = out_fno
          /\ \A k \in 1..Len(output_storage) :
                output_storage[k].frames = FramesDuringRender(k)
    /\ pc = "loop" =>
          \A k \in 1..Len(output_storage) : output_storage[k].frames = FusedFnos

\* the second moment has been rendered by the first of two sinks, and the
\* second sink is next
C14_Witness ==
    /\ pc = "render"
    /\ Len(output_storage) = 2
    /\ next_sink = 2
    /\ Len(fused) = 2
    /\ output_storage[1].frames = FusedFnos
    /\ output_storage[2].frames = Front(FusedFnos)

\* C15: in whatever order the initialisations of the outputs complete, once
\* they are joined the sink list has exactly one entry per configured output,
\* in configuration order, and so has the list of paths that run_config
\* returns after the loop.
C15_OutputsInConfigOrder ==
    /\ pc \in {"loop", "gather", "render"} =>
          /\ Len(output_storage) = Len(cfg.output)
          /\ \A i \in 1..Len(cfg.output) :
                /\ output_storage[i].kind = cfg.output[i]
                /\ output_storage[i].path = i
    /\ (pc = "done" /\ result.status = "ok" /\ IterBuiltAtEnd) =>
          result.paths = [i \in 1..Len(cfg.output) |-> i]

\* the second output completed its initialisation before the first, and the
\* run returned the paths
C15_Witness ==
    /\ pc = "done"
    /\ result.status = "ok"
    /\ output_init.order = <<2, 1>>
    /\ result.paths = <<1, 2>>
    /\ output_storage[1].kind = "Video"
    /\ output_storage[2].kind = "Braidz"

\* C16 as claimed: without an archive, a video input whose frame source
\* reports no time zero makes run_config return an error to its caller,
\* before any moment is produced and before any output is initialised.
C16_NoStartTimeIsAnError ==
    (/\ pc = "done"
     /\ ~HasArchive
     /\ \E i \in 1..NumVideos : IsNone(cfg.input_video[i].frame0_time)) =>
        /\ result.status = "err"
        /\ n_pulled = 0
        /\ Len(fused) = 0
        /\ Len(output_init.order) = 0

\* the timing of the run was resolved: run_config is past lib.rs 655
TimingResolved == IsSome(frame_duration) /\ IsSome(sync_threshold)

\* second frame minus first frame of every configured video, in nanoseconds
FirstDeltas ==
    [i \in 1..NumVideos |->
        cfg.input_video[i].frames[2].ts - cfg.input_video[i].frames[1].ts]

\* the frame duration the claim describes
ExpectedFrameDuration ==
    IF IsSome(cfg.frame_duration_microsecs)
    THEN Unwrap(cfg.frame_duration_microsecs) * 1000
    ELSE SeqMin(FirstDeltas)

\* C17 as claimed: the resolved sync threshold is the configured one when
\* set and otherwise exactly half of the resolved frame duration, which is the
\* configured one when set and otherwise the least first-to-second-frame
\* difference over the cameras.
C17_ThresholdIsExactlyHalf ==
    TimingResolved =>
        /\ Unwrap(frame_duration) = ExpectedFrameDuration
        /\ IF IsSome(cfg.sync_threshold_microseconds)
           THEN Unwrap(sync_threshold) = Unwrap(cfg.sync_threshold_microseconds) * 1000
           ELSE 2 * Unwrap(sync_threshold) = Unwrap(frame_duration)

\* C17, amended: durations are whole nanoseconds, so the default threshold is
\* half of the frame duration only up to that resolution: exactly half for an
\* even number of nanoseconds, the half rounded down for an odd positive one,
\* and never more than half a nanosecond away from the half.
C17_ThresholdIsHalfInWholeNanos ==
    TimingResolved =>
        LET duration == Unwrap(frame_duration)
            threshold == Unwrap(sync_threshold)
        IN  /\ duration = ExpectedFrameDuration
            /\ IF IsSome(cfg.sync_threshold_microseconds)
               THEN threshold = Unwrap(cfg.sync_threshold_microseconds) * 1000
               ELSE /\ duration % 2 = 0 => 2 * threshold = duration
                    /\ duration >= 0 => 2 * threshold \in {duration - 1, duration}
                    /\ Abs(duration - 2 * threshold) <= 1

\* two cameras, nothing configured: the least difference is an odd number of
\* nanoseconds and the threshold is its half rounded down
C17_Witness ==
    /\ TimingResolved
    /\ NumVideos = 2
    /\ IsNone(cfg.frame_duration_microsecs)
    /\ IsNone(cfg.sync_threshold_microseconds)
    /\ FirstDeltas[1] # FirstDeltas[2]
    /\ Unwrap(frame_duration) = 999
    /\ Unwrap(sync_threshold) = 499

\* the cursor of video i as the aligner finds it: all frames of the video
InputReader(i) == cfg.input_video[i].frames

\* the target start time: the latest time zero of the videos
AlignTarget == SeqMax([i \in 1..NumVideos |-> Unwrap(cfg.input_video[i].frame0_time)])

\* synchronize_readers_from has just been called: it panicked, or the
\* iterator holds the cursors as it left them
AlignPanicked == pc = "done" /\ result = Panic("synchronize_readers_from")
AlignReturned == sync_ran /\ pc = "outputs"

\* every frame of the cursor was decoded
AllDecoded(r) == \A k \in 1..Len(r) : r[k].ok

\* the cursor from its k-th frame on
Suffix(r, k) == SubSeq(r, k, Len(r))

\* C18 as claimed: for a cursor whose first frame is at or after the target,
\* however many frames follow, synchronize_readers_from completes normally and
\* leaves the cursor as it was, and so does a second call.
C18_AtOrAfterTargetIsNoOp ==
    sync_ran =>
        /\ \A i \in 1..NumVideos :
              (AllDecoded(InputReader(i)) /\ InputReader(i)[1].ts >= AlignTarget) =>
                  /\ SynchronizeReader(AlignTarget, InputReader(i)) = Some(InputReader(i))
                  /\ AlignReturned => moment_iter.readers[i] = InputReader(i)
        /\ (\A i \in 1..NumVideos :
               AllDecoded(InputReader(i)) /\ InputReader(i)[1].ts >= AlignTarget)
              => ~AlignPanicked

\* the first frame of the cursor at or after the target (0: there is none)
FirstAtOrAfter(r, target) ==
    IF \E k \in 1..Len(r) : r[k].ts >= target
    THEN Least({k \in 1..Len(r) : r[k].ts >= target})
    ELSE 0

\* the frame the closest-match rule keeps of the straddling pair (k - 1, k)
ClosestOfPair(r, k, target) ==
    IF Abs(r[k].ts - target) < Abs(r[k - 1].ts - target) THEN k ELSE k - 1

\* C19: when the cursor starts before the target and the aligner reaches the
\* first pair of consecutive frames that straddle it (frame k - 1 before the
\* target, frame k at or after it), the cursor is left on frame k only if k is
\* strictly closer to the target, and on frame k - 1 otherwise (also on a tie).
C19_ClosestOfStraddlingPair ==
    sync_ran =>
        \A i \in 1..NumVideos :
           LET r == InputReader(i)
               k == FirstAtOrAfter(r, AlignTarget)
           IN  (AllDecoded(r) /\ k >= 2) =>
                   /\ SynchronizeReader(AlignTarget, r) =
                          Some(Suffix(r, ClosestOfPair(r, k, AlignTarget)))
                   /\ AlignReturned =>
                          moment_iter.readers[i] =
                              Suffix(r, ClosestOfPair(r, k, AlignTarget))

\* the two frames around the target are equally far from it and the cursor
\* was left on the earlier one, with a frame after the pair
C19_Witness ==
    /\ AlignReturned
    /\ NumVideos = 1
    /\ Len(InputReader(1)) = 3
    /\ InputReader(1)[1].ts < AlignTarget
    /\ InputReader(1)[2].ts > AlignTarget
    /\ AlignTarget - InputReader(1)[1].ts = InputReader(1)[2].ts - AlignTarget
    /\ moment_iter.readers[1] = InputReader(1)

\* the timestamps of the cursor increase strictly
Increasing(r) == \A a, b \in 1..Len(r) : a < b => r[a].ts < r[b].ts

\* the earliest frame of the cursor that is closest to the target
ClosestFrame(r, target) ==
    Least({k \in 1..Len(r) :
              \A j \in 1..Len(r) : Abs(r[k].ts - target) <= Abs(r[j].ts - target)})

\* C20: for a stream of two or more frames with strictly increasing
\* timestamps and a frame at or after the target, synchronize_readers_from
\* leaves the cursor on the frame of the whole stream that is closest to the
\* target, the earliest on a tie, with every later frame after it in order.
C20_ClosestFrameOfStream ==
    sync_ran =>
        \A i \in 1..NumVideos :
           LET r == InputReader(i) IN
           (/\ AllDecoded(r)
            /\ Increasing(r)
            /\ Len(r) >= 2
            /\ FirstAtOrAfter(r, AlignTarget) # 0) =>
               /\ SynchronizeReader(AlignTarget, r) =
                      Some(Suffix(r, ClosestFrame(r, AlignTarget)))
               /\ AlignReturned =>
                      moment_iter.readers[i] = Suffix(r, ClosestFrame(r, AlignTarget))

\* a stream of three frames, the first before the target: the cursor was left
\* on the second, which is strictly closer, and the third follows it
C20_Witness ==
    /\ AlignReturned
    /\ NumVideos = 1
    /\ Len(InputReader(1)) = 3
    /\ Increasing(InputReader(1))
    /\ InputReader(1)[1].ts < AlignTarget
    /\ InputReader(1)[2].ts > AlignTarget
    /\ AlignTarget - InputReader(1)[1].ts > InputReader(1)[2].ts - AlignTarget
    /\ moment_iter.readers[1] = Suffix(InputReader(1), 2)

\* every frame of video i is before the target start time
AllBefore(i) == \A k \in 1..Len(InputReader(i)) : InputReader(i)[k].ts < AlignTarget

\* the free-running path with decodable frames and a configured frame duration:
\* nothing but the start-up alignment stands before the merge
ReachesAligner ==
    /\ ~HasArchive
    /\ NumVideos > 0
    /\ IsSome(cfg.frame_duration_microsecs)
    /\ \A i \in 1..NumVideos :
          /\ IsSome(cfg.input_video[i].frame0_time)
          /\ Len(InputReader(i)) > 0
          /\ AllDecoded(InputReader(i))

\* C21 as claimed: a camera whose remaining frames are all before the target
\* start time, be it a single frame, has all of them consumed and its cursor
\* left exhausted; the alignment of the other cameras and the merge still
\* proceed, and that camera has no image in any moment.
C21_AllBeforeTargetIsExhausted ==
    ReachesAligner =>
        \A i \in 1..NumVideos :
            AllBefore(i) =>
                /\ ~AlignPanicked
                /\ sync_ran => SynchronizeReader(AlignTarget, InputReader(i)) = Some(<< >>)
                /\ AlignReturned => moment_iter.readers[i] = << >>
                /\ (IterBuilt /\ IsSome(synced_data)) =>
                       IsNone(Unwrap(synced_data).camera_pictures[i].image)

\* the same for cameras with two or more frames, all before the target
ExhaustedFromTwoFrames ==
    ReachesAligner =>
        \A i \in 1..NumVideos :
            (AllBefore(i) /\ Len(InputReader(i)) >= 2) =>
                /\ sync_ran => SynchronizeReader(AlignTarget, InputReader(i)) = Some(<< >>)
                /\ (AlignReturned => moment_iter.readers[i] = << >>)
                /\ (\A j \in 1..NumVideos : Len(InputReader(j)) >= 2) => ~AlignPanicked
                /\ (IterBuilt /\ IsSome(synced_data)) =>
                       IsNone(Unwrap(synced_data).camera_pictures[i].image)

\* a moment with an image of the late camera and none of the exhausted one
ExhaustedCameraSeen ==
    /\ ReachesAligner /\ NumVideos = 2 /\ AllBefore(1) /\ Len(InputReader(1)) >= 2
    /\ pc = "render" /\ IsSome(Unwrap(synced_data).camera_pictures[2].image)

\* C22 as claimed: in the free-running path, after the start-up alignment
\* every cursor that is not exhausted has its first upcoming frame within the
\* resolved sync threshold of the target start time.
C22_FirstFrameWithinThreshold ==
    AlignReturned =>
        \A i \in 1..NumVideos :
            Len(moment_iter.readers[i]) > 0 =>
                Abs(moment_iter.readers[i][1].ts - AlignTarget) <= Unwrap(sync_threshold)

\* C22: in the free-running path, after the start-up alignment a cursor that
\* started before the target start time and has a frame at or after it is
\* left, not exhausted, on one of the two consecutive frames around the
\* target, and that frame is within the resolved sync threshold of the target
\* whenever those two frames are no more than twice the threshold apart; a
\* cursor that started at or after the target keeps its first frame.
C22_WithinThresholdWhenPairIsClose ==
    AlignReturned =>
        \A i \in 1..NumVideos :
           LET r == InputReader(i)
               k == FirstAtOrAfter(r, AlignTarget)
               left == moment_iter.readers[i]
           IN  /\ k = 1 => left = r
               /\ k >= 2 =>
                     /\ left \in {Suffix(r, k - 1), Suffix(r, k)}
                     /\ r[k].ts - r[k - 1].ts <= 2 * Unwrap(sync_threshold) =>
                           Abs(left[1].ts - AlignTarget) <= Unwrap(sync_threshold)

\* two cameras, the first started before the second: its cursor was advanced
\* to a frame within the threshold of the second one's start
C22_Witness ==
    /\ AlignReturned
    /\ NumVideos = 2
    /\ InputReader(1)[1].ts < AlignTarget
    /\ InputReader(2)[1].ts = AlignTarget
    /\ Unwrap(sync_threshold) > 0
    /\ moment_iter.readers[1] # InputReader(1)
    /\ Len(moment_iter.readers[1]) > 0
    /\ Abs(moment_iter.readers[1][1].ts - AlignTarget) <= Unwrap(sync_threshold)
    /\ moment_iter.readers[2] = InputReader(2)

\* the cursor has this many frames fewer than the video: those the aligner consumed
Consumed(r, left) == Len(r) - Len(left)

\* C23: for any stream, with timestamps in any order, what the start-up
\* aligner leaves is the stream without some of its first frames, and every
\* frame it consumed has a timestamp strictly before the target start time.
C23_OnlyFramesBeforeTargetDiscarded ==
    sync_ran =>
        \A i \in 1..NumVideos :
           LET r == InputReader(i)
               res == SynchronizeReader(AlignTarget, r)
           IN  /\ IsSome(res) =>
                     /\ Len(Unwrap(res)) <= Len(r)
                     /\ Unwrap(res) = Suffix(r, Consumed(r, Unwrap(res)) + 1)
                     /\ \A k \in 1..Consumed(r, Unwrap(res)) : r[k].ts < AlignTarget
               /\ AlignReturned =>
                     /\ moment_iter.readers[i] =
                            Suffix(r, Consumed(r, moment_iter.readers[i]) + 1)
                     /\ \A k \in 1..Consumed(r, moment_iter.readers[i]) :
                            r[k].ts < AlignTarget

\* a stream whose timestamps go back in time: the aligner consumed its first
\* frame, before the target, and stopped before a frame at or after the
\* target although a later frame is before the target again
C23_Witness ==
    /\ AlignReturned
    /\ NumVideos = 1
    /\ Len(InputReader(1)) = 3
    /\ ~Increasing(InputReader(1))
    /\ InputReader(1)[3].ts < AlignTarget
    /\ moment_iter.readers[1] = Suffix(InputReader(1), 2)
    /\ InputReader(1)[2].ts >= AlignTarget

\* video i has a frame that fails to decode among those run_config examines
\* before the merge: the first one (render template, lib.rs 193) or the second
\* one (frame-duration estimate, lib.rs 628-645; start-up alignment, lib.rs
\* 96-113)
FailsBeforeMerge(i) ==
    LET r == InputReader(i) IN
    \/ ~r[1].ok
    \/ /\ ~r[2].ok
       /\ IsNone(cfg.frame_duration_microsecs) \/ ~HasArchive

\* C24 as claimed: when one of the first frames examined before the merge
\* fails to decode, run_config returns an error value, as it does for a
\* decode error met during the merge.
C24_EarlyDecodeErrorIsAnErrorValue ==
    (/\ \A i \in 1..NumVideos :
           IsSome(cfg.input_video[i].frame0_time) /\ Len(InputReader(i)) >= 2
     /\ \E i \in 1..NumVideos : FailsBeforeMerge(i)) =>
        \/ pc \in {"sources", "resolve", "roster", "names", "iter"}
        \/ pc = "done" /\ result.status = "err"

\* the points of the rows fusion accepts, in row order
AcceptedPoints(rows) ==
    LET sel == SelectSeq(rows, LAMBDA row : NotNanOk(row.x)) IN
    [k \in 1..Len(sel) |-> <<sel[k].x, sel[k].y>>]

\* the image buffer of a camera picture
ImageOf(per_cam) ==
    IF IsSome(per_cam.image) THEN Some(Unwrap(per_cam.image).data) ELSE None

\* C25: fusion changes neither the roster with its render templates, nor the
\* camera names, nor the moment it is given; a fresh render frame has no
\* points and no image, and after fusion the render frame of camera i holds
\* the points of the accepted rows and the image of camera i's entry of this
\* moment and nothing else.
C25_FusionIsStateless ==
    [][pc = "gather" =>
          /\ sources' = sources
          /\ camera_names' = camera_names
          /\ synced_data' = synced_data
          /\ moment_iter' = moment_iter
          /\ \A i \in 1..Len(sources) :
                /\ NewRenderData(i, 0).points = << >>
                /\ NewRenderData(i, 0).png_buf = None
          /\ pc' \in {"render", "loop"} =>
                LET pics == Unwrap(synced_data).camera_pictures IN
                /\ Len(all_cam_render_data') = Len(pics)
                /\ \A i \in 1..Len(pics) :
                      /\ all_cam_render_data'[i].p = i
                      /\ all_cam_render_data'[i].points =
                             AcceptedPoints(pics[i].this_cam_this_frame)
                      /\ all_cam_render_data'[i].png_buf = ImageOf(pics[i])]_vars

\* the second fused moment of a run: its render frame has one point and no
\* image, after a first moment whose render frame had two points
C25_Witness ==
    /\ pc = "render"
    /\ Len(fused) = 2
    /\ HasArchive
    /\ Len(AcceptedPoints(RowsOf(TheArchive.moments[1], 0))) = 2
    /\ Len(all_cam_render_data) = 1
    /\ Len(all_cam_render_data[1].points) = 1
    /\ all_cam_render_data[1].points =
           AcceptedPoints(Unwrap(synced_data).camera_pictures[1].this_cam_this_frame)

\* C26 as claimed: every render frame built by fusion carries the timestamp of
\* the moment, so that all render frames of one moment share it.
C26_RenderFramesCarryMomentTime ==
    pc = "render" =>
        \A i \in 1..Len(all_cam_render_data) :
            all_cam_render_data[i].pts_chrono = Unwrap(synced_data).timestamp

\* C26: for every moment and every camera, the render frame built by fusion
\* carries the timestamp of that camera's entry of the moment
\* (OutTimepointPerCamera.timestamp).
C26_RenderFramesCarryPictureTime ==
    pc = "render" =>
        /\ Len(all_cam_render_data) = Len(Unwrap(synced_data).camera_pictures)
        /\ \A i \in 1..Len(all_cam_render_data) :
              all_cam_render_data[i].pts_chrono =
                  Unwrap(synced_data).camera_pictures[i].timestamp

\* a moment of two cameras whose entries, and so whose render frames, have
\* different timestamps
C26_Witness ==
    /\ pc = "render"
    /\ Len(all_cam_render_data) = 2
    /\ Unwrap(synced_data).camera_pictures[1].timestamp #
           Unwrap(synced_data).camera_pictures[2].timestamp
    /\ all_cam_render_data[1].pts_chrono # all_cam_render_data[2].pts_chrono
    /\ all_cam_render_data[2].pts_chrono =
           Unwrap(synced_data).camera_pictures[2].timestamp

\* the cursor of a roster camera, as long as the camera holds it
ReaderOf(source) ==
    IF source.cam_id.kind = "BraidzOnly" THEN None ELSE Unwrap(source.cam_id.m).reader

\* one camera before and after its cursor is moved out: nothing but the
\* cursor has changed
OnlyReaderTaken(before, after) ==
    /\ after.per_cam_render = before.per_cam_render
    /\ after.cam_id.kind = before.cam_id.kind
    /\ after.cam_id.b = before.cam_id.b
    /\ Unwrap(after.cam_id.m) = [Unwrap(before.cam_id.m) EXCEPT !.reader = None]

\* C27: the lazy frame sequence of every video input is requested once, when
\* the roster is built, and never again; the cursor stays in its CameraSource
\* until the moment iterator is built and is moved out then, once, the
\* iterator getting one cursor per camera; the take changes nothing else of
\* the camera, the roster stays as it is from then on, and a further
\* take_reader, like any take_reader of an archive-only camera, returns nothing.
C27_ReaderTakenOnce ==
    [][/\ \A i \in 1..NumVideos :
             /\ frame_sources'[i].iter_calls <= 1
             /\ frame_sources'[i].iter_calls >= frame_sources[i].iter_calls
             /\ pc # "sources" => frame_sources'[i].iter_calls = frame_sources[i].iter_calls
       /\ (pc = "sources" /\ pc' = "resolve") =>
             \A i \in 1..NumVideos :
                /\ frame_sources'[i].iter_calls = 1
                /\ ReaderOf(sources'[i]) = Some(InputReader(i))
       /\ (pc \in {"resolve", "roster", "names"} /\ Len(cfg.input_video) > 0) =>
             \A i \in 1..NumVideos : ReaderOf(sources'[i]) = Some(InputReader(i))
       /\ (pc = "iter" /\ pc' = "outputs") =>
             IF braidz_only
             THEN /\ sources' = sources
                  /\ \A i \in 1..Len(sources) :
                        TakenReader(sources[i]) = None /\ AfterTake(sources[i]) = sources[i]
             ELSE /\ Len(moment_iter'.readers) = Len(sources)
                  /\ Len(sources') = Len(sources)
                  /\ \A i \in 1..Len(sources) :
                        /\ OnlyReaderTaken(sources[i], sources'[i])
                        /\ TakenReader(sources'[i]) = None
                        /\ \E k \in 1..(Len(InputReader(i)) + 1) :
                              moment_iter'.readers[i] = Suffix(InputReader(i), k)
       /\ IterBuilt => sources' = sources
      ]_vars

\* the second moment of a run with two video cameras is fused: the cameras
\* have given their cursors away and still have their templates
C27_Witness ==
    /\ pc = "render"
    /\ Len(fused) = 2
    /\ NumVideos = 2
    /\ \A i \in 1..2 :
          /\ sources[i].cam_id.kind # "BraidzOnly"
          /\ ReaderOf(sources[i]) = None
          /\ frame_sources[i].iter_calls = 1
          /\ sources[i].per_cam_render.width = 2
          /\ all_cam_render_data[i].p = i

\* what is left of the underlying sequence after the advances made so far
PeekRest == Suffix(peek.underlying, Len(peek.yielded) + 1)

\* C28: under any interleaving of peek1, peek2 and next on a sequence of any
\* length, 0 and 1 included, the lookahead cursor behaves like the underlying
\* sequence: what it has yielded followed by what it holds is the underlying
\* sequence, without loss or duplication; peek1 and peek2 return the items
\* the next two advances will yield, nothing where fewer remain, and leave the
\* position as it is; next yields the first remaining item, if any, and
\* moves past it; no more than two items are held outside the iterator.
C28_LookaheadRefinesSequence ==
    [][peek.op # "none" =>
          /\ peek'.yielded \o Remaining(peek'.cursor) = peek.underlying
          /\ peek'.underlying = peek.underlying
          /\ Remaining(peek'.cursor) = Suffix(peek.underlying, Len(peek'.yielded) + 1)
          /\ Len(peek'.cursor.peek1) + Len(peek'.cursor.peek2) <= 2
          /\ IsNone(peek'.cursor.peek1) => IsNone(peek'.cursor.peek2) /\ peek'.cursor.iter = << >>
          /\ Peek2Peek1(peek.cursor) = Peek2Next(peek.cursor).item
          /\ Peek2Peek2(peek.cursor) = Peek2Next(Peek2Next(peek.cursor).cursor).item
          /\ peek'.op = "peek1" =>
                /\ peek'.returned = P2Peek1(PeekRest)
                /\ peek'.cursor = peek.cursor
                /\ peek'.yielded = peek.yielded
          /\ peek'.op = "peek2" =>
                /\ peek'.returned = P2Peek2(PeekRest)
                /\ peek'.cursor = peek.cursor
                /\ peek'.yielded = peek.yielded
          /\ peek'.op = "next" =>
                /\ peek'.returned = P2Peek1(PeekRest)
                /\ peek'.yielded = peek.yielded \o P2Peek1(PeekRest)
                /\ Remaining(peek'.cursor) = P2Next(PeekRest)]_vars

\* a sequence of three items after two advances: peek2 returned nothing,
\* and the last item is still to come
C28_Witness ==
    /\ peek.op = "peek2"
    /\ Len(peek.underlying) = 3
    /\ peek.yielded = SubSeq(peek.underlying, 1, 2)
    /\ peek.returned = None
    /\ Peek2Peek1(peek.cursor) = Some(peek.underlying[3])
    /\ peek.underlying[1] # peek.underlying[3]

\* the cursor of video i, wherever it is held: in its camera until the merge
\* begins, in the moment iterator afterwards
HeldCursor(i) ==
    IF pc \in {"resolve", "roster", "names", "iter"} THEN ReaderOf(sources[i])
    ELSE IF IterBuilt /\ ~braidz_only THEN Some(moment_iter.readers[i])
    ELSE None

\* C29 as claimed: no frame is pulled from a camera's frame source before the
\* camera's cursor is advanced, so the frames pulled are never more than the
\* frames the cursor has yielded, during the construction of the roster and
\* of the render templates and the frame-duration estimate as during the merge.
C29_NothingPulledBeforeAdvance ==
    \A i \in 1..NumVideos :
        IsSome(HeldCursor(i)) =>
            frame_sources[i].pulled <= Consumed(InputReader(i), Unwrap(HeldCursor(i)))

\* C29: no frame source is read before the roster is built; from then on
\* the frames pulled from a camera's source are those its cursor has yielded
\* and at most two more, the first frame being pulled when the camera's
\* render template is built; frames are pulled only while the roster is
\* built, at the start-up alignment and when the moment loop asks for a
\* moment; and the moment iterator does not move, and no moment exists,
\* unless the moment loop asks for the next one.
C29_PulledOnlyAhead ==
    [][/\ pc = "sources" => \A i \in 1..NumVideos : frame_sources[i] = Unopened
       /\ \A i \in 1..NumVideos :
             /\ frame_sources'[i].pulled >= frame_sources[i].pulled
             /\ frame_sources'[i].pulled <= Len(InputReader(i))
             /\ IsSome(HeldCursor(i)') =>
                   LET yielded == Consumed(InputReader(i), Unwrap(HeldCursor(i)')) IN
                   /\ frame_sources'[i].pulled >= yielded
                   /\ frame_sources'[i].pulled <= yielded + 2
                   /\ frame_sources'[i].pulled >= 1
       /\ frame_sources' # frame_sources => pc \in {"sources", "iter", "loop"}
       /\ moment_iter' # moment_iter =>
             \/ pc = "iter"
             \/ pc = "loop" /\ n_pulled' = n_pulled + 1
       /\ synced_data' # synced_data => pc = "loop" /\ n_pulled' = n_pulled + 1
      ]_vars

\* the roster is built and no cursor has been advanced: two of the three
\* frames of the video have been pulled
C29_Witness ==
    /\ pc = "resolve"
    /\ NumVideos = 1
    /\ Len(InputReader(1)) = 3
    /\ HeldCursor(1) = Some(InputReader(1))
    /\ frame_sources[1].pulled = 2

\* the merge indices s, s + 1, .. of the first n moments after the skipped ones
IndicesFrom(s, n) == [k \in 1..n |-> s + k - 1]

\* C30: with skip_n_first_output_frames = s (0 when unset), the moments with
\* merge index below s are pulled but neither fused nor given to a sink, and
\* every later moment is fused and given to the sinks under its merge index:
\* the indices fused, and those every sink received, are s, s + 1, s + 2, ...
\* without gap, one per moment pulled beyond the first s.
C30_SkippedMomentsKeepTheirIndex ==
    /\ FusedFnos = IndicesFrom(SkipCount, Len(fused))
    /\ \A k \in 1..Len(output_storage) :
          output_storage[k].frames = IndicesFrom(SkipCount, Len(output_storage[k].frames))
    /\ n_pulled <= SkipCount =>
          /\ Len(fused) = 0
          /\ pc \notin {"gather", "render"}
          /\ \A k \in 1..Len(output_storage) : output_storage[k].frames = << >>
    /\ pc \in {"gather", "render"} => out_fno = n_pulled - 1 /\ out_fno >= SkipCount
    /\ pc = "render" => Len(fused) = n_pulled - SkipCount
    /\ (pc = "loop" /\ n_pulled > SkipCount) =>
          /\ Len(fused) = n_pulled - SkipCount
          /\ \A k \in 1..Len(output_storage) : output_storage[k].frames = FusedFnos

\* one moment was skipped and the two after it reached the sinks as 1 and 2
C30_Witness ==
    /\ pc = "loop"
    /\ SkipCount = 1
    /\ n_pulled = 3
    /\ FusedFnos = <<1, 2>>
    /\ Len(output_storage) = 2
    /\ \A k \in 1..2 : output_storage[k].frames = <<1, 2>>

\* the frames left in the cursors of the moment iterator
FramesLeft(it) ==
    UNION {{<<i, k>> : k \in 1..Len(it.readers[i])} : i \in 1..Len(it.readers)}

\* the latest timestamp among the frames left, the clock itself if none is left
LastTimeLeft(it) ==
    IF FramesLeft(it) = {} THEN it.clock
    ELSE CHOOSE t \in {it.readers[p[1]][p[2]].ts : p \in FramesLeft(it)} :
            \A p \in FramesLeft(it) : it.readers[p[1]][p[2]].ts <= t

\* the work the merge has left: archive moments in Mode A; in Mode B the
\* frames left and the time from the moment clock to the last of them
MergeRank(it) ==
    IF it.kind = "Synced"
    THEN Cardinality(FramesLeft(it))
             + (IF LastTimeLeft(it) > it.clock THEN LastTimeLeft(it) - it.clock ELSE 0)
    ELSE Len(it.moments)

\* the end condition of the merge: the archive (Mode A) or every cursor
\* (Mode B) is exhausted
MergeEnded(it) ==
    IF it.kind = "Synced" THEN FramesLeft(it) = {} ELSE Len(it.moments) = 0

\* a step of the moment loop that got a moment from the iterator
MomentYielded == pc = "loop" /\ n_pulled' = n_pulled + 1 /\ result' = Running

\* C31 as claimed: the merge yields finitely many moments and then ends: no
\* moment is yielded once the archive (Mode A) or every cursor (Mode B) is
\* exhausted, and every moment yielded leaves strictly less work to the merge.
C31_MergeTerminates ==
    [][pc = "loop" =>
          /\ MergeEnded(moment_iter) =>
                IsNone(IterNext(moment_iter).item) /\ ~IterNext(moment_iter).err
          /\ MomentYielded =>
                /\ ~MergeEnded(moment_iter)
                /\ MergeRank(moment_iter') < MergeRank(moment_iter)]_vars

\* the same for the runs whose resolved frame duration is positive, and for
\* those driven by the archive
TerminatesWhenClockAdvances ==
    [][(pc = "loop" /\ (moment_iter.kind = "Synced" => moment_iter.frame_duration > 0)) =>
          /\ MergeEnded(moment_iter) =>
                IsNone(IterNext(moment_iter).item) /\ ~IterNext(moment_iter).err
          /\ MomentYielded =>
                /\ ~MergeEnded(moment_iter)
                /\ MergeRank(moment_iter') < MergeRank(moment_iter)]_vars


\* the roster cameras whose identity is archive-only
ArchiveOnly == {i \in 1..Len(sources) : sources[i].cam_id.kind = "BraidzOnly"}

\* C32: once the roster is built it is homogeneous: every identity is
\* archive-only exactly when braidz_only is true, and otherwise none is; so no
\* run fails by reading the camera number of a non-archive identity in the
\* archive-only path, or by taking the reader or asking the frame0 time of an
\* archive-only identity.
C32_RosterIsHomogeneous ==
    /\ RosterBuilt =>
          /\ braidz_only <=> ArchiveOnly = 1..Len(sources)
          /\ ~braidz_only => ArchiveOnly = {}
          /\ ~braidz_only => Len(sources) > 0
    /\ result \notin {Panic("impossible"), Panic("take_reader")}

\* an archive-only roster of two cameras and, behind it, the archive it came from
C32_Witness ==
    /\ pc = "outputs" /\ braidz_only /\ Len(sources) = 2
    /\ moment_iter.kind = "NoVideo"


\* C33: identity resolution preserves the video roster: after it the roster
\* has exactly one entry per configured video input, in configuration order,
\* and each entry keeps its own file, render template and cursor, whatever
\* cameras the archive lists.
C33_ResolutionKeepsVideoRoster ==
    [][pc = "resolve" =>
          /\ Len(sources') = NumVideos
          /\ \A i \in 1..NumVideos :
                /\ sources'[i].cam_id.kind \in {"MovieOnly", "Both"}
                /\ sources'[i].cam_id.m = sources[i].cam_id.m
                /\ sources'[i].per_cam_render = sources[i].per_cam_render
                /\ Unwrap(sources'[i].cam_id.m).filename = cfg.input_video[i].filename
                /\ Unwrap(sources'[i].cam_id.m).reader
                      = Some(P2New(cfg.input_video[i].frames))]_vars

\* two different videos resolved against an archive of two cameras, one of
\* which matches a video
C33_Witness ==
    /\ pc = "roster" /\ NumVideos = 2 /\ HasArchive /\ Len(TheArchive.cams) = 2
    /\ cfg.input_video[1].filename # cfg.input_video[2].filename
    /\ \E i, j \in 1..2 : sources[i].cam_id.kind = "Both" /\ sources[j].cam_id.kind = "MovieOnly"


\* the video inputs identified by their configured camera name only: no
\* embedded title and no camera name in the file name
ConfiguredNameOnly ==
    {i \in 1..NumVideos :
        /\ IsSome(cfg.input_video[i].camera_name)
        /\ IsNone(InputRawName(cfg.input_video[i]))}

\* C34 as claimed: building the camera-name list succeeds for every video
\* camera: a run whose videos all have a title, a camera name in the file
\* name or a configured camera name never crashes there.
C34_CameraNamesNeverCrash ==
    (\A i \in 1..NumVideos :
        i \in ConfiguredNameOnly \/ IsSome(InputRawName(cfg.input_video[i])))
        => result # Panic("raw_name")


\* the positions of the slice NAL units of the stream given to the source
SliceUnits == {p \in 1..Len(h264.nal_units) : IsSlice(h264.nal_units[p])}

\* the position of the k-th slice NAL unit, 0 for k = 0
NthSlice(k) ==
    IF k = 0 THEN 0
    ELSE CHOOSE p \in SliceUnits :
            Cardinality({q \in SliceUnits : q < p}) = k - 1

\* the source was accepted and its iterator exists
Iterating == h264.status \in {"iterating", "panic"}

\* C35: the iterator yields one frame per slice NAL unit (IDR or not), in
\* stream order, with idx 0, 1, 2, ...; frame k is given exactly the NAL units
\* after the slice of frame k-1 up to and including its own slice, and when
\* the iterator ends there is one frame for every slice.
C35_OneFramePerSliceUnit ==
    Iterating =>
        /\ Len(h264.yielded) <= Cardinality(SliceUnits)
        /\ \A k \in 1..Len(h264.yielded) :
              /\ h264.yielded[k].idx = k - 1
              /\ h264.yielded[k].nal_units
                    = SubSeq(h264.nal_units, NthSlice(k - 1) + 1, NthSlice(k))
        /\ h264.ended > 0 => Len(h264.yielded) = Cardinality(SliceUnits)

\* an IDR and a non-IDR frame, the second with a unit before its slice, and
\* the end of the iteration
C35_Witness ==
    /\ h264.ended > 0 /\ Len(h264.yielded) = 2
    /\ Len(h264.yielded[1].nal_units) = 2
    /\ Len(h264.yielded[2].nal_units) = 2
    /\ h264.nal_units[NthSlice(1)].unit_type = "Idr"
    /\ h264.nal_units[NthSlice(2)].unit_type = "NonIdr"

\* C36 as claimed: size_hint reports (r, Some(r)) with r the number of frames
\* still to be yielded, at every point of the iteration, also after next()
\* has returned None, and never fails on the subtraction.
C36_SizeHintIsExact ==
    h264.op = "size_hint" =>
        LET r == Cardinality(SliceUnits) - Len(h264.yielded) IN
        /\ h264.panic = ""
        /\ h264.hint = Some([lower |-> Usize(r), upper |-> Some(Usize(r))])

\* the same while next() has not yet returned None
SizeHintExactBeforeTheEnd ==
    (h264.op = "size_hint" /\ h264.ended = 0) =>
        LET r == Cardinality(SliceUnits) - Len(h264.yielded) IN
        /\ h264.panic = ""
        /\ h264.hint = Some([lower |-> Usize(r), upper |-> Some(Usize(r))])

\* C37 as claimed: iterating an accepted source, next() never aborts: every
\* frame has the timestamp of the resolved source, a duration since frame 0
\* whenever a source was resolved.
C37_NextNeverAborts ==
    /\ h264.op = "next" => h264.panic = ""
    /\ Iterating =>
          \A k \in 1..Len(h264.yielded) :
              IsSome(h264.source.timestamp_source)
                  => h264.yielded[k].timestamp.kind = "Duration"

\* the same for the sources whose frames all carry the time frame 0 has, none
\* earlier than frame 0's
NextCompletesWhenTimesAreUniform ==
    (\A k \in 1..Len(h264.source.frame_to_nalu_time_info) :
        LET nti == h264.source.frame_to_nalu_time_info[k] IN
        /\ h264.source.timestamp_source = Some("MispMicrosectime") =>
              /\ IsSome(nti.precise_timestamp)
              /\ Unwrap(nti.precise_timestamp) >= Unwrap(h264.source.frame0_precision_time)
        /\ h264.source.timestamp_source = Some("FrameInfoRecvTime") =>
              /\ IsSome(nti.frameinfo_recv_ntp)
              /\ Unwrap(nti.frameinfo_recv_ntp)
                    >= Unwrap(h264.source.frame0_frameinfo_recv_ntp))
        => (h264.op = "next" => h264.panic = "")


\* a frame with a precision time stamp earlier than frame 0's made next() abort
EarlierThanFrame0Seen == h264.panic = "to_std.unwrap"


\* the SDK calls the frame callback of camera c in this step
CallbackInvoked(c) ==
    /\ vimba.cb[c] = "idle" /\ vimba'.api = vimba.api
    /\ vimba'.queued[c] = vimba.queued[c] - 1

\* the callback of camera c returns in this step without having sent a message
ReturnsWithoutSending(c) ==
    /\ \/ CallbackInvoked(c)
       \/ vimba.cb[c] \in {"requeue", "send"}
    /\ vimba'.cb[c] = "idle"
    /\ vimba'.chan = vimba.chan

\* the callback of camera c is skipped in this step: the buffer is not copied,
\* not re-queued, and nothing is sent
CallbackSkipped(c) ==
    /\ CallbackInvoked(c)
    /\ vimba'.cb[c] = "idle" /\ vimba'.msg = vimba.msg
    /\ vimba'.chan = vimba.chan /\ vimba'.mutex = vimba.mutex
    /\ \A d \in Cams \ {c} : vimba'.queued[d] = vimba.queued[d]

\* C38: a panic or error inside the frame callback ends the callback with the
\* global done flag set; with the flag set, every callback the SDK calls does
\* no work (no copy, no re-queueing, nothing sent on any channel); and only
\* acquisition_start clears the flag.
C38_DoneFlagStopsCallbacks ==
    [][\A c \in Cams :
          /\ ReturnsWithoutSending(c) => vimba'.is_done
          /\ (CallbackInvoked(c) /\ vimba.is_done) => CallbackSkipped(c) /\ vimba'.is_done
          /\ (vimba.is_done /\ ~vimba'.is_done) =>
                \E d \in Cams : vimba.api[d] = "idle" /\ vimba'.api[d] = "start"]_vars

\* the callback of camera 1 failed, and then both cameras' buffers were handed
\* to callbacks that neither re-queued nor sent them
C38_Witness ==
    /\ vimba.is_done /\ vimba.done_by = <<"callback", 1>>
    /\ \A d \in Cams :
          /\ vimba.capturing[d] /\ vimba.cb[d] = "idle" /\ vimba.api[d] = "idle"
          /\ vimba.queued[d] = 0 /\ vimba.chan[d] = << >>

\* C39 as claimed: with two cameras open, a camera whose acquisition is
\* started keeps delivering when the other camera is stopped or the other
\* camera's callback fails: its callbacks are not skipped for a done flag that
\* the other camera set.
C39_OtherCameraKeepsDelivering ==
    [][\A c \in Cams :
          (/\ vimba.acquisition_started[c] /\ vimba.capturing[c]
           /\ vimba.api[c] = "idle" /\ vimba.rx_alive[c]
           /\ vimba.done_by \in {<<"stop", d>> : d \in Cams \ {c}}
                                \cup {<<"callback", d>> : d \in Cams \ {c}})
              => ~CallbackSkipped(c)]_vars

====
